---- MODULE Spec2Model ----
(***************************************************************************)
(* Frame-command pipeline and instanced-draw batching of the dotrix        *)
(* renderer: dotrix-gpu (Gpu and its registry, CreateFrame, ResizeSurface, *)
(* ClearFrame, SubmitCommands, PresentFrame) and dotrix-pbr (Allocator,    *)
(* Render).                                                                *)
(***************************************************************************)
EXTENDS Integers, Sequences, FiniteSets, TLC

(***************************************************************************)
(* Bounds of the model.                                                    *)
(***************************************************************************)
\* entities ever spawned in the world
MaxEntities == 3
\* command-producing passes besides ClearFrame and Render
NumOtherPasses == 3
\* highest version a mesh asset reaches
MaxVersion == 2
\* resize requests issued while one is pending
MaxPendingRequests == 2
\* uuids the registry comes to hold
MaxUuids == 3
\* writes issued through write_buffer_by_id
MaxQueueWrites == 2
\* device.create_texture calls made for the texture
MaxTextures == 2
\* layer views asked of Texture::init
MaxLayers == 2
\* uuids Uuid::new_v4 may give the Allocator's stores
MaxFreshUuids == 19
\* ranges a SlicedBuffer records before it is cleared
MaxSlices == 3
\* initial_vertex_count of the ui Render
MaxInitialVertexCount == 1
\* channels added to an Animation
MaxChannels == 2
\* attributes of a vertex buffer layout
MaxAttributes == 2

Meshes == {"m1", "m2"}
Materials == {"a1", "a2"}
\* priorities the other passes hand to CommandEncoder::finish
Priorities == {10, 20, 30}
\* transform matrices an entity takes; a new entity has the identity
IdentityMatrix == "I"
Matrices == {"I", "A"}
\* widths and heights of a surface size
Sizes == {0, 1, 2}
\* Option::None
None == "None"
\* types of the objects stored and the objects themselves
Types == {"Buffer", "ShaderModule"}
Objects == {"x", "y"}
Uuids == 1 .. MaxUuids

(***************************************************************************)
(* Program constants.                                                      *)
(***************************************************************************)
ClearFramePriority == 1000
RenderPriority == 2000
\* SolidVertexBufferLayout::vertex_size(): Position (3 x f32), Normal
\* (3 x f32), TexUV (2 x f32)
VertexSize == 32
\* size_of::<[[f32; 4]; 4]>() and the size of one of its rows, [f32; 4]
MatrixSize == 64
RowSize == 16
\* seconds over which the real fps is measured
FPS_MEASURE_INTERVAL == 5
\* size_of::<MaterialUniform>(): color, options, maps_1, maps_2 of 4 x 4 bytes
MaterialUniformSize == 64
\* size_of::<Instance>(): four u32
InstanceSize == 16
\* size_of::<wgpu::util::DrawIndirect>(): four u32
DrawIndirectSize == 16

VARIABLES
    \* ---- task scheduling (one cycle = one frame)
    tasks,          \* tasks scheduled with the manager
    ran,            \* tasks that have run in the current cycle
    passesRan,      \* other command-producing passes run in the current cycle
    panic,          \* "none", or the panic that aborted the process
    \* ---- task outputs
    frame,          \* Frame channel: "none" | "ready"
    buffersOut,     \* Buffers channel holds the Allocator's output
    pool,           \* Commands channel, in order of production
    submitOut,      \* SubmitCommands channel holds the Submit report
    \* ---- SubmitCommands::run and the device queue
    submitPc,       \* "idle" | "polling" | "returned"
    collected,      \* the commands as collected by the running SubmitCommands
    submitted,      \* command buffers of this cycle's queue.submit, in order
    submitCalls,    \* queue.submit calls of this cycle
    deviceDone,     \* the device has processed the submission
    presented,      \* the frame's image was presented in this cycle
    \* ---- Allocator
    allocated,      \* Allocator.buffers.is_some()
    buffer_sizes,   \* sizes the Allocator was constructed with, in bytes
    \* ---- world and assets
    entities,       \* entity id -> [mesh, material] of the queried entities
    nextEntity,     \* next fresh entity id
    transforms,     \* entity id -> the entity's Transform matrix
    meshAssets,     \* loaded mesh assets: mesh -> [version, indexed, solid, vertices]
    materialAssets, \* loaded material assets
    \* ---- Render (dotrix-pbr)
    meshes,         \* mesh -> MeshLayout
    meshes_layout,  \* meshes in the order they were cached
    meshes_size,    \* tail offset of the vertex buffer
    transform_bases,\* entity -> transform slot
    material_bases, \* material -> material slot
    mesh_writes,    \* writes issued to the vertex buffer, oldest first
    transform_buffer,   \* transform buffer: byte offset of a row -> row content
    \* ---- what the last Render run did in its frame
    drawn,                  \* entities that passed the loop, in query order
    indirect_buffer_data,   \* IndirectCommands emitted
    instances_buffer_data,  \* Instance records emitted
    frame_writes,           \* queue writes issued, as [buffer, offset, size]
    draw_calls,             \* multi_draw_indirect calls recorded in the pass
    \* ---- Gpu (dotrix-gpu)
    env,            \* what the clock and the surface can do in this run
    frames_duration,\* VecDeque of frame deltas, front first
    frames_capacity,\* frames_duration.capacity()
    last_frame,     \* last_frame.is_some()
    measured,       \* Option of what i.elapsed() gave in the last CreateFrame run
    fps,            \* <<frames, duration>> of the last fps = frames / duration
    surface_conf,   \* <<width, height>> of the surface configuration
    resize_request, \* None or <<width, height>>
    requested,      \* the requests issued since a request was last taken
    taken,          \* what the last CreateFrame run took from resize_request
    surface_calls,  \* surface calls of the last CreateFrame run, in order
    frame_delta,    \* delta of the Frame produced last
    \* ---- Gpu::storage and the device queue
    storage,        \* the entries [uuid, type, data] of the HashMap
    last_call,      \* the last registry call and what it returned
    queue_writes,   \* queue.write_buffer calls issued through write_buffer_by_id
    \* ---- init (dotrix-gpu): the adapter found and the device requested
    adapter,        \* what the system's adapter offers
    device,         \* Option of the device init returned
    \* ---- Texture (dotrix_core)
    texture,        \* the fields of a Texture
    textures_created,   \* device.create_texture calls made
    texture_op,     \* the last call made on the texture
    texture_writes, \* queue.write_texture calls of the last call
    \* ---- Allocator (dotrix-pbr)
    uuid_source,    \* the uuids Uuid::new_v4 may give in this run of the program
    buffers,        \* Allocator.buffers: Option of the handles
    device_calls,   \* device and queue calls the Allocator has made, in order
    returned,       \* Option of the Buffers the last Allocator run returned
    \* ---- ui Render: its sliced buffers
    vertex_buffer,  \* SlicedBuffer: [buffer, slices, size]
    index_buffer,   \* SlicedBuffer: [buffer, slices, size]
    ui_call,        \* the last call made on a sliced buffer
    \* ---- Animation (dotrix_core)
    overflow_checks,\* the build checks integer overflow (debug) or wraps (release)
    animation,      \* the channels of an Animation, by kind
    sample_call,    \* the last call on the animation and what a sample returned
    \* ---- vertex attributes of a render pipeline
    vertex_attributes   \* the layout given last and the attributes made of it

schedVars == <<tasks, ran, passesRan, panic>>
chanVars == <<frame, buffersOut, pool, submitOut>>
submitVars == <<submitPc, collected, submitted, submitCalls, deviceDone, presented>>
worldVars == <<entities, nextEntity, transforms, meshAssets, materialAssets>>
batchVars == <<meshes, meshes_layout, meshes_size, transform_bases, material_bases,
               mesh_writes, transform_buffer>>
outVars == <<drawn, indirect_buffer_data, instances_buffer_data, frame_writes,
            draw_calls>>
gpuVars == <<env, frames_duration, frames_capacity, last_frame, measured, fps, surface_conf,
             resize_request, requested, taken, surface_calls, frame_delta>>
regVars == <<storage, last_call, queue_writes>>
allocVars == <<uuid_source, buffers, device_calls, returned>>
uiVars == <<vertex_buffer, index_buffer, ui_call>>
animVars == <<overflow_checks, animation, sample_call>>
platformVars == <<adapter, device, texture, textures_created, texture_op,
                  texture_writes, allocVars, uiVars, animVars, vertex_attributes>>
vars == <<schedVars, chanVars, submitVars, allocated, buffer_sizes, platformVars,
          worldVars, batchVars, outVars, gpuVars, regVars>>

Empty == [x \in {} |-> 0]

AllTasks == {"CreateFrame", "Allocator", "ClearFrame", "Render", "OtherPass",
             "SubmitCommands", "PresentFrame"}
BatchTasks == {"CreateFrame", "Allocator", "Render", "SubmitCommands", "PresentFrame"}
FrameTasks == {"CreateFrame", "SubmitCommands", "PresentFrame"}
SurfaceTasks == FrameTasks \cup {"ResizeSurface"}

OtherPasses == 1 .. NumOtherPasses

(***************************************************************************)
(* Context-access contracts of the task scheduler.                         *)
(***************************************************************************)
\* a scheduled task runs at most once per cycle, and not after a panic
CanRun(t) == panic = "none" /\ t \in tasks /\ t \notin ran

\* Any<T> / Take<T>: an output of that type is available
AnyFrame == frame = "ready"
AnyBuffers == buffersOut
TakeSubmitCommands == submitOut

\* Collect<Commands>: every scheduled producer of Commands has finished
CollectCommands ==
    /\ ("ClearFrame" \in tasks => "ClearFrame" \in ran)
    /\ ("Render" \in tasks => "Render" \in ran)
    /\ ("OtherPass" \in tasks => passesRan = OtherPasses)

(***************************************************************************)
(* CommandEncoder::finish                                                  *)
(***************************************************************************)
\* pass and id name the encoder that was finished
Finish(pass, id, priority) == [pass |-> pass, id |-> id, priority |-> priority]

(***************************************************************************)
(* commands.sort_by(|a, b| a.priority.cmp(&b.priority)): a stable sort.    *)
(***************************************************************************)
\* a goes before b: a.priority.cmp(&b.priority) is not Greater
PriorityCmpReversed(a, b) == a.priority >= b.priority
PriorityCmp(a, b) == a.priority <= b.priority

\* c takes its place behind every element that does not compare greater
InsertUnstable(sorted, c) ==
    LET keep == {i \in 1 .. Len(sorted) : sorted[i].priority < c.priority}
        n == Cardinality(keep)
    IN  SubSeq(sorted, 1, n) \o <<c>> \o SubSeq(sorted, n + 1, Len(sorted))
InsertSorted(sorted, c) ==
    LET keep == {i \in 1 .. Len(sorted) : PriorityCmp(sorted[i], c)}
        n == Cardinality(keep)
    IN  SubSeq(sorted, 1, n) \o <<c>> \o SubSeq(sorted, n + 1, Len(sorted))

RECURSIVE SortByPriority(_)
SortByPriority(s) ==
    IF s = <<>> THEN <<>>
    ELSE InsertSorted(SortByPriority(SubSeq(s, 1, Len(s) - 1)), s[Len(s)])

(***************************************************************************)
(* Render::run (dotrix-pbr): the loop over the queried entities.           *)
(* st is the task's state while the loop runs: self.meshes,                *)
(* self.meshes_layout, self.meshes_size, self.transform_bases,             *)
(* self.material_bases, the local draw_entries, the vertex-buffer writes   *)
(* issued and the entities that reached the end of the loop body.          *)
(***************************************************************************)
\* the default sizes of the buffers, and Allocator::new with them
DefaultBufferSizes ==
    [mesh |-> 64 * 1024 * 1024,
     transform |-> 8 * 1024 * 1024,
     indirect |-> 8 * 1024 * 1024,
     instances |-> 1000 * InstanceSize,
     materials |-> 50 * MaterialUniformSize]

\* Queue::write_buffer validates that the data ends within the buffer
FitsAlways(buffer, offset, size) == TRUE
Fits(buffer, offset, size) == offset + size <= buffer_sizes[buffer]

\* Gpu::write_buffer from the loop: a write that fails validation is not
\* issued and panics
GpuWriteBuffer(st, buffer, offset, size) ==
    IF Fits(buffer, offset, size)
    THEN [st EXCEPT !.frame_writes = Append(@,
                        [buffer |-> buffer, offset |-> offset, size |-> size])]
    ELSE [st EXCEPT !.panic = "capacity"]

\* self.meshes.get(mesh_id): the cache is looked up by mesh id
MeshLookupNever(st, mesh_id) == FALSE
MeshLookup(st, mesh_id) == mesh_id \in DOMAIN st.meshes

\* self.meshes_size += data_size
AdvanceTailNever(size, data_size) == size
AdvanceTail(size, data_size) == size + data_size

\* the mesh is not cached: upload it at the tail of the vertex buffer
StoreMeshFront(st, mesh_id, mesh) ==
    LET vertex_size == VertexSize
        data_size == mesh.vertices * vertex_size
        offset == st.meshes_size
        base_vertex == offset \div vertex_size
        vertex_count == mesh.vertices
        layout == [version |-> mesh.version,
                   offset |-> offset,
                   size |-> data_size,
                   base_vertex |-> base_vertex,
                   vertex_count |-> vertex_count]
        inserted == [st EXCEPT
                        !.meshes = (mesh_id :> layout) @@ st.meshes,
                        !.meshes_size = AdvanceTail(st.meshes_size, data_size)]
        written == GpuWriteBuffer(inserted, "mesh", offset, data_size)
    IN  IF written.panic # "none" THEN written
        ELSE [written EXCEPT
                !.mesh_writes = Append(st.mesh_writes,
                    [mesh |-> mesh_id, offset |-> offset, size |-> data_size,
                     version |-> mesh.version]),
                !.meshes_layout = <<mesh_id>> \o st.meshes_layout]
StoreMesh(st, mesh_id, mesh) ==
    LET vertex_size == VertexSize
        data_size == mesh.vertices * vertex_size
        offset == st.meshes_size
        base_vertex == offset \div vertex_size
        vertex_count == mesh.vertices
        layout == [version |-> mesh.version,
                   offset |-> offset,
                   size |-> data_size,
                   base_vertex |-> base_vertex,
                   vertex_count |-> vertex_count]
        inserted == [st EXCEPT
                        !.meshes = (mesh_id :> layout) @@ st.meshes,
                        !.meshes_size = AdvanceTail(st.meshes_size, data_size)]
        written == GpuWriteBuffer(inserted, "mesh", offset, data_size)
    IN  IF written.panic # "none" THEN written
        ELSE [written EXCEPT
                !.mesh_writes = Append(st.mesh_writes,
                    [mesh |-> mesh_id, offset |-> offset, size |-> data_size,
                     version |-> mesh.version]),
                !.meshes_layout = Append(st.meshes_layout, mesh_id)]

\* map.entry(key).or_insert(map.len())
SlotReuseLast(bases, key) ==
    IF key \in DOMAIN bases THEN bases
    ELSE (key :> IF Cardinality(DOMAIN bases) = 0 THEN 0
                 ELSE Cardinality(DOMAIN bases) - 1) @@ bases
EntryOrInsertLen(bases, key) ==
    IF key \in DOMAIN bases THEN bases
    ELSE (key :> Cardinality(DOMAIN bases)) @@ bases

\* draw_entries.entry(mesh_id).or_insert_with(..).instances.push(..)
PushInstanceDropped(entries, mesh_id, base_vertex, vertex_count, instance) ==
    IF mesh_id \in DOMAIN entries
    THEN entries
    ELSE (mesh_id :> [base_vertex |-> base_vertex, vertex_count |-> vertex_count,
                      instances |-> <<instance>>]) @@ entries
PushInstanceFront(entries, mesh_id, base_vertex, vertex_count, instance) ==
    IF mesh_id \in DOMAIN entries
    THEN [entries EXCEPT ![mesh_id].instances = <<instance>> \o @]
    ELSE (mesh_id :> [base_vertex |-> base_vertex, vertex_count |-> vertex_count,
                      instances |-> <<instance>>]) @@ entries
PushInstance(entries, mesh_id, base_vertex, vertex_count, instance) ==
    IF mesh_id \in DOMAIN entries
    THEN [entries EXCEPT ![mesh_id].instances = Append(@, instance)]
    ELSE (mesh_id :> [base_vertex |-> base_vertex, vertex_count |-> vertex_count,
                      instances |-> <<instance>>]) @@ entries

\* queue.write_buffer(buffer, offset, data): data is a sequence of 16-byte rows,
\* a buffer maps the byte offset of a row to the row's content
WriteBuffer(buffer, offset, data) ==
    LET written == {offset + (r - 1) * RowSize : r \in 1 .. Len(data)}
    IN  [o \in DOMAIN buffer \cup written |->
            IF o \in written THEN data[((o - offset) \div RowSize) + 1]
            ELSE buffer[o]]

\* bytemuck::cast_slice(&transform_matrix): the four rows of the matrix
MatrixBytes(matrix) == [r \in 1 .. MatrixSize \div RowSize |-> <<matrix, r>>]

\* base_transform as u64 * size_of::<[[f32; 4]; 4]>() as u64
TransformOffsetRowStride(base_transform) == base_transform * RowSize
TransformOffset(base_transform) == base_transform * MatrixSize

\* base_material as u64 * size_of::<MaterialUniform>() as u64
MaterialOffset(base_material) == base_material * MaterialUniformSize

\* the rest of the loop body, once the mesh is resident in st
DrawEntity(st, entity_id, mesh_id, material_id, mesh, cached) ==
    LET layout == st.meshes[mesh_id]
        tb == EntryOrInsertLen(st.transform_bases, entity_id)
        mb == EntryOrInsertLen(st.material_bases, material_id)
        instance == [base_transform |-> tb[entity_id],
                     base_material |-> mb[material_id]]
        slotted == GpuWriteBuffer([st EXCEPT !.transform_bases = tb],
                       "transform", TransformOffset(tb[entity_id]), MatrixSize)
        moved == [slotted EXCEPT
                    !.material_bases = mb,
                    !.transform_buffer = WriteBuffer(st.transform_buffer,
                                             TransformOffset(tb[entity_id]),
                                             MatrixBytes(transforms[entity_id]))]
        shaded == GpuWriteBuffer(moved, "materials",
                      MaterialOffset(mb[material_id]), MaterialUniformSize)
    IN  IF st.panic # "none" THEN st
        ELSE IF slotted.panic # "none" THEN slotted
        ELSE IF shaded.panic # "none" THEN shaded
        ELSE [shaded EXCEPT
            !.draw_entries = PushInstance(st.draw_entries, mesh_id,
                                 layout.base_vertex, layout.vertex_count, instance),
            !.drawn = Append(st.drawn,
                [entity |-> entity_id, mesh |-> mesh_id, material |-> material_id,
                 version |-> mesh.version, cached |-> cached,
                 base_vertex |-> layout.base_vertex,
                 vertex_count |-> layout.vertex_count,
                 base_transform |-> tb[entity_id],
                 base_material |-> mb[material_id]])]

\* one iteration of the loop
ProcessEntity(st, entity_id) ==
    LET mesh_id == entities[entity_id].mesh
        material_id == entities[entity_id].material
    IN  IF mesh_id \notin DOMAIN meshAssets THEN st
        ELSE IF material_id \notin materialAssets THEN st
        ELSE LET mesh == meshAssets[mesh_id]
             IN  IF MeshLookup(st, mesh_id)
                 THEN DrawEntity(st, entity_id, mesh_id, material_id, mesh, TRUE)
                 ELSE IF mesh.indexed
                 THEN [st EXCEPT !.panic = "indexed"]
                 ELSE IF mesh.solid
                 THEN DrawEntity(StoreMesh(st, mesh_id, mesh), entity_id, mesh_id,
                                 material_id, mesh, FALSE)
                 ELSE st

RECURSIVE RunLoop(_, _)
RunLoop(st, order) ==
    IF order = <<>> \/ st.panic # "none" THEN st
    ELSE RunLoop(ProcessEntity(st, Head(order)), Tail(order))

(***************************************************************************)
(* Render::run: the indirect and instance data, built over meshes_layout.  *)
(***************************************************************************)
\* base_instance += instance_count
NextBaseInstanceByOne(base_instance, instance_count) == base_instance + 1
NextBaseInstance(base_instance, instance_count) ==
    base_instance + instance_count

RECURSIVE BuildIndirect(_, _, _, _)
BuildIndirect(layout, entries, base_instance, acc) ==
    IF layout = <<>> \/ acc.panic # "none" THEN acc
    ELSE LET mesh_id == Head(layout)
         IN  IF mesh_id \notin DOMAIN entries
             THEN [acc EXCEPT !.panic = "unwrap"]
             ELSE LET entry == entries[mesh_id]
                      instance_count == Len(entry.instances)
                  IN  BuildIndirect(Tail(layout), entries,
                          NextBaseInstance(base_instance, instance_count),
                          [acc EXCEPT
                              !.instances = acc.instances \o entry.instances,
                              !.indirect = Append(acc.indirect,
                                  [base_vertex |-> entry.base_vertex,
                                   vertex_count |-> entry.vertex_count,
                                   instance_count |-> instance_count,
                                   base_instance |-> base_instance])])

\* the writes of the instance data and of the indirect data, at offset 0
WriteBulk(writes, acc) ==
    LET instances == [buffer |-> "instances", offset |-> 0,
                      size |-> Len(acc.instances) * InstanceSize]
        indirect == [buffer |-> "indirect", offset |-> 0,
                     size |-> Len(acc.indirect) * DrawIndirectSize]
        failed == [writes |-> writes, instances |-> <<>>, indirect |-> <<>>,
                   panic |-> acc.panic]
    IN  IF acc.panic # "none" THEN failed
        ELSE IF ~Fits("instances", 0, instances.size)
        THEN [failed EXCEPT !.panic = "capacity"]
        ELSE IF ~Fits("indirect", 0, indirect.size)
        THEN [failed EXCEPT !.writes = Append(writes, instances),
                            !.instances = acc.instances,
                            !.panic = "capacity"]
        ELSE [writes |-> writes \o <<instances, indirect>>,
              instances |-> acc.instances, indirect |-> acc.indirect,
              panic |-> "none"]

\* rpass.multi_draw_indirect(&indirect_buffer.inner, 0,
\* indirect_buffer_data.len() as u32): the call reads count records of the
\* indirect buffer from indirect_offset on
MultiDrawIndirectWholeBuffer(indirect_offset, count) ==
    [buffer |-> "indirect", indirect_offset |-> indirect_offset,
     count |-> buffer_sizes.indirect \div DrawIndirectSize]
MultiDrawIndirect(indirect_offset, count) ==
    [buffer |-> "indirect", indirect_offset |-> indirect_offset, count |-> count]

\* the orders in which world.query may return the entities
QueryOrders ==
    LET S == DOMAIN entities
        n == Cardinality(S)
    IN  {o \in [1 .. n -> S] : \A i, j \in 1 .. n : i # j => o[i] # o[j]}

\* mesh.count_vertices() of the content a mesh asset has at a version
MeshVertices(mesh_id, version) == (IF mesh_id = "m1" THEN 1 ELSE 2) + (version - 1)

(***************************************************************************)
(* Gpu::new: the window of frame durations and the surface.                *)
(* env.fps_request gives ceil(fps_request) and the whole ticks of          *)
(* 1.0 / fps_request; env.deltas are the times the clock can measure       *)
(* between two frames, env.acquire the results get_current_texture can     *)
(* give, env.surface_size the size the surface is created with.            *)
(***************************************************************************)
\* (FPS_MEASURE_INTERVAL * fps_request.ceil() as u32) as usize
FpsSamples(fps_request) == FPS_MEASURE_INTERVAL * fps_request.ceil

NextPowerOfTwo(n) == CHOOSE p \in {2 ^ k : k \in 0 .. 16} :
                        p >= n /\ \A q \in {2 ^ k : k \in 0 .. 16} : q >= n => p <= q

\* VecDeque::with_capacity(n).capacity(): at least n.  The deque either takes
\* the requested capacity as it is, or rounds its buffer up to a power of two
\* and keeps one slot of it free.
WithCapacity(n) ==
    {n, NextPowerOfTwo(IF n + 1 > 2 THEN n + 1 ELSE 2) - 1}

\* a clock and a surface that give one outcome only
CalmEnv == [fps_request |-> [ceil |-> 1, period |-> 2],
            deltas |-> {2}, acquire |-> {"Ok"}, surface_size |-> <<1, 1>>]

\* a clock that measures frames shorter and longer than 1.0 / fps_request
TimingEnv == [fps_request |-> [ceil |-> 1, period |-> 2],
              deltas |-> {1, 3}, acquire |-> {"Ok"}, surface_size |-> <<1, 1>>]

\* a surface whose image may fail to be acquired
SurfaceEnv == [fps_request |-> [ceil |-> 1, period |-> 2],
               deltas |-> {2}, acquire |-> {"Ok", "Err"}, surface_size |-> <<1, 1>>]

InitGpu(e, capacity) ==
    /\ env = e
    /\ frames_duration = <<>>
    /\ frames_capacity = capacity
    /\ last_frame = FALSE
    /\ measured = {}
    /\ fps = <<1, e.fps_request.period>>
    /\ surface_conf = e.surface_size
    /\ resize_request = None /\ requested = <<>> /\ taken = None
    /\ surface_calls = <<[call |-> "configure", result |-> e.surface_size]>>
    /\ frame_delta = None
    /\ storage = {} /\ queue_writes = <<>>
    /\ last_call = [op |-> "none", uuid |-> 0, type |-> None, data |-> None,
                    id |-> {}, replaced |-> {}, result |-> {}]

(***************************************************************************)
(* init (dotrix-gpu): the adapter and the device.                          *)
(***************************************************************************)
Features == {"MULTI_DRAW_INDIRECT", "INDIRECT_FIRST_INSTANCE", "TIMESTAMP_QUERY"}
\* wgpu::ShaderModel: Sm2 < Sm4 < Sm5
ShaderModels == {2, 4, 5}

optional_features == {}
required_features == {"MULTI_DRAW_INDIRECT", "INDIRECT_FIRST_INSTANCE"}
\* required_downlevel_capabilities.shader_model
RequiredShaderModel == 5

\* the adapters a system may have: whether one is found, the features and
\* the shader model it offers, and what it answers to a device request it
\* could serve
Adapters ==
    [found : BOOLEAN, features : SUBSET Features, shader_model : ShaderModels,
     request_device : {"Ok", "Err"}]

\* adapter_features.contains(required_features)
Contains(features, required) == required \subseteq features

\* downlevel_capabilities.shader_model >= required shader_model
ShaderModelAny(offered, required) == TRUE
ShaderModelAtLeast(offered, required) == offered >= required

\* adapter.request_device: the device with the features asked for, or an
\* error when the adapter lacks one of them or cannot serve the request
RequestDevice(a, features) ==
    IF features \subseteq a.features /\ a.request_device = "Ok"
    THEN {[features |-> features]}
    ELSE {}

\* the outcome of init on adapter a: the panic and the Option of the device
InitOutcome(a) ==
    LET requested_features == (optional_features \cap a.features)
                                  \cup required_features
        requested_device == RequestDevice(a, requested_features)
    IN  IF ~a.found
        THEN [panic |-> "No suitable GPU adapters found on the system!",
              device |-> {}]
        ELSE IF ~Contains(a.features, required_features)
        THEN [panic |-> "Not supported", device |-> {}]
        ELSE IF ~ShaderModelAtLeast(a.shader_model, RequiredShaderModel)
        THEN [panic |-> "Shader model requiered", device |-> {}]
        ELSE IF requested_device = {}
        THEN [panic |-> "Unable to find a suitable GPU adapter!", device |-> {}]
        ELSE [panic |-> "none", device |-> requested_device]

\* an adapter that offers all that init requires
SuitableAdapter ==
    [found |-> TRUE, features |-> required_features, shader_model |-> 5,
     request_device |-> "Ok"]

\* Texture::default()
TextureDefault ==
    [kind |-> "D2", wgpu_texture |-> {}, wgpu_texture_view |-> {}, layers |-> {}]

(***************************************************************************)
(* Texture (dotrix_core): an Option is the set of what it holds.           *)
(***************************************************************************)
\* wgpu::TextureViewDimension of Texture::new, new_cube, new_array, new_3d
TextureKinds == {"D2", "Cube", "D2Array", "D3"}
\* Option<u32> of layer views to create
LayersCounts == {{}} \cup {{c} : c \in 1 .. MaxLayers}
\* lengths of the slice of layer data handed to load and update
LayersData == {1, 2, 6}

\* Texture::new and the constructors of the other kinds
Texture_new(kind) == [TextureDefault EXCEPT !.kind = kind]

\* Texture::init with the id of the backend texture that create_texture makes
Texture_init(t, id, layers_count) ==
    LET depth_or_array_layers ==
            IF layers_count = {}
            THEN (IF t.kind = "Cube" THEN 6 ELSE 1)
            ELSE CHOOSE c \in layers_count : TRUE
        backend == [id |-> id, depth_or_array_layers |-> depth_or_array_layers]
        view == [texture |-> id, dimension |-> t.kind]
        viewed == [t EXCEPT !.wgpu_texture_view = {view}]
    IN  IF layers_count # {} /\ t.kind # "D2Array"
        THEN [texture |-> viewed, panic |-> "assert_eq"]
        ELSE [texture |->
                [viewed EXCEPT
                    !.layers = {[i \in 1 .. c |->
                                    [texture |-> id, base_array_layer |-> i - 1]]
                                : c \in layers_count},
                    !.wgpu_texture = {backend}],
              panic |-> "none"]

\* Texture::update: one queue.write_texture per layer of data, which the
\* queue refuses for a layer the backend texture does not have
Texture_updateUnguarded(t, layers) ==
    [texture |-> t,
     writes |-> [i \in 1 .. layers |-> [texture |-> 0, z |-> i - 1]],
     panic |-> "none"]
Texture_update(t, layers) ==
    IF t.wgpu_texture = {}
    THEN [texture |-> t, writes |-> <<>>, panic |-> "none"]
    ELSE LET backend == CHOOSE b \in t.wgpu_texture : TRUE
             issued == IF layers <= backend.depth_or_array_layers THEN layers
                       ELSE backend.depth_or_array_layers
         IN  [texture |-> t,
              writes |-> [i \in 1 .. issued |-> [texture |-> backend.id, z |-> i - 1]],
              panic |-> IF issued < layers THEN "write_texture" ELSE "none"]

\* Texture::load
Texture_load(t, id, layers) ==
    IF t.kind = "Cube" /\ layers # 6
    THEN [texture |-> t, writes |-> <<>>, panic |-> "assert_eq"]
    ELSE Texture_update(Texture_init(t, id, {}).texture, layers)

\* Texture::unload
Texture_unload(t) == [t EXCEPT !.wgpu_texture = {}, !.wgpu_texture_view = {}]

\* Texture::loaded
Texture_loaded(t) == t.wgpu_texture_view # {}

\* Texture::count_layers
Texture_count_layers(t) ==
    IF t.layers = {} THEN 0 ELSE Len(CHOOSE layers \in t.layers : TRUE)

(***************************************************************************)
(* Allocator (dotrix-pbr)                                                  *)
(***************************************************************************)
\* the objects the first run stores, in the order of its gpu.store calls
StoredObjects ==
    <<[field |-> "mesh", type |-> "Buffer", data |-> "dotrix::pbr::mesh"],
      [field |-> "transform", type |-> "Buffer", data |-> "dotrix::pbr::transform"],
      [field |-> "materials", type |-> "Buffer", data |-> "dotrix::pbr::materials"],
      [field |-> "indirect", type |-> "Buffer", data |-> "dotrix::pbr::indirect"],
      [field |-> "instances", type |-> "Buffer", data |-> "dotrix::pbr::instances"],
      [field |-> "solid_render_pipeline", type |-> "RenderPipeline",
       data |-> "dotrix::pbr::render_pipeline"],
      [field |-> "bind_group", type |-> "BindGroup", data |-> "bind_group"],
      [field |-> "shader_module", type |-> "ShaderModule",
       data |-> "dotrix::pbr::solid_shader_module"],
      [field |-> "camera_mockup", type |-> "Buffer", data |-> "dotrix::pbr::camera"]>>

\* the device and queue calls of the first run, in order
AllocatorCalls ==
    <<[call |-> "create_buffer", label |-> "dotrix::pbr::mesh"],
      [call |-> "create_buffer", label |-> "dotrix::pbr::transform"],
      [call |-> "create_buffer", label |-> "dotrix::pbr::materials"],
      [call |-> "create_buffer", label |-> "dotrix::pbr::indirect"],
      [call |-> "create_buffer", label |-> "dotrix::pbr::instances"],
      [call |-> "create_shader_module", label |-> "dotrix::pbr::solid_shader_module"],
      [call |-> "create_bind_group_layout", label |-> "dotrix::pbr::bind_group_layout"],
      [call |-> "create_pipeline_layout", label |-> "dotrix::pbr::pipeline_layout"],
      [call |-> "create_render_pipeline", label |-> "dotrix::pbr::render_pipeline"],
      [call |-> "create_buffer", label |-> "dotrix::pbr::camera"],
      [call |-> "write_buffer", label |-> "dotrix::pbr::camera"],
      [call |-> "create_bind_group", label |-> "bind_group"]>>

\* self.buffers.is_none()
OptionIsNoneAlways(option) == TRUE
OptionIsNone(option) == option = {}

\* the uuids Uuid::new_v4 gives a run of gpu.store calls: as many as there are
\* objects, different from each other and from every uuid in use; a run of
\* consecutive uuids of the source stands for them
FreshIds(source, map, n) ==
    {[k \in 1 .. n |-> base + k] :
        base \in {b \in 0 .. Cardinality(source) :
                    \A k \in 1 .. n : b + k \in source /\ b + k \notin {e.uuid : e \in map}}}

\* the gpu.store calls of the first run: storage.insert(raw_id, Box::new(data))
RECURSIVE StoreAll(_, _, _)
StoreAll(map, ids, n) ==
    IF n = 0 THEN map
    ELSE LET before == StoreAll(map, ids, n - 1)
         IN  {e \in before : e.uuid # ids[n]} \cup
             {[uuid |-> ids[n], type |-> StoredObjects[n].type,
               data |-> StoredObjects[n].data]}

\* Buffers { mesh: gpu.store(mesh_buffer), ... }
Handles(ids) ==
    [f \in {StoredObjects[k].field : k \in 1 .. Len(StoredObjects)} |->
        ids[CHOOSE k \in 1 .. Len(StoredObjects) : StoredObjects[k].field = f]]

\* Allocator::run on the cached handles option and the registry map, with ids
\* the uuids its stores get: what it leaves in self.buffers and in the
\* registry, the calls it makes and the Buffers it returns
Allocator_run(option, map, ids) ==
    IF OptionIsNone(option)
    THEN [buffers |-> {Handles(ids)},
          storage |-> StoreAll(map, ids, Len(StoredObjects)),
          calls |-> AllocatorCalls,
          output |-> Handles(ids)]
    ELSE [buffers |-> option,
          storage |-> map,
          calls |-> <<>>,
          output |-> CHOOSE b \in option : TRUE]

\* Allocator::new: no handle is cached and nothing was returned
InitAllocator(source) ==
    /\ uuid_source = source
    /\ buffers = {}
    /\ device_calls = <<>>
    /\ returned = {}

(***************************************************************************)
(* ui Render and SlicedBuffer                                              *)
(***************************************************************************)
\* VertexAttributes::vertex_size()
VertexAttributesSizes == {8, 16}
\* lengths of the byte vectors handed to SlicedBuffer::write, and the sizes
\* asked of clear_vertex_buffer and clear_index_buffer
SliceLens == {0, 4, 8}
ClearSizes == {0, 8, 16}
SliceLists == {<<>>} \cup {<<a>> : a \in SliceLens}
                   \cup {<<a, b>> : a \in SliceLens, b \in SliceLens}

Min(set) == CHOOSE x \in set : \A y \in set : x <= y

\* SlicedBuffer { buffer: create_*_buffer(gpu, size), slices: Vec::new, size }
SlicedBuffer_new(size) ==
    [buffer |-> [size |-> size], slices |-> <<>>, size |-> size]

\* Render::new: the vertex and index buffers
InitRender(initial_vertex_count, vertex_size) ==
    /\ vertex_buffer = SlicedBuffer_new(vertex_size * 3 * initial_vertex_count)
    /\ index_buffer = SlicedBuffer_new(4 * 3 * initial_vertex_count)
    /\ ui_call = [op |-> "new", buffer |-> "none", size |-> 0, slices |-> <<>>]

\* clear_vertex_buffer and clear_index_buffer on their buffer
Render_clear_buffer(sb, size) ==
    IF sb.size < size
    THEN [buffer |-> [size |-> size], slices |-> <<>>, size |-> size]
    ELSE [sb EXCEPT !.slices = <<>>]

\* the offset of SlicedBuffer::write ahead of the first slice
WriteStart(sb) == 0

\* SlicedBuffer::write after n slices of the list: the buffer, the offset of
\* the next slice and the panic of a write that fails the queue's validation
RECURSIVE SlicedBuffer_write_loop(_, _, _)
SlicedBuffer_write_loop(sb, slices, n) ==
    IF n = 0 THEN [sb |-> sb, offset |-> WriteStart(sb), panic |-> "none"]
    ELSE LET before == SlicedBuffer_write_loop(sb, slices, n - 1)
             offset == before.offset
             next_offset == offset + slices[n]
         IN  IF before.panic # "none" THEN before
             ELSE IF next_offset > before.sb.buffer.size
             THEN [before EXCEPT !.panic = "capacity"]
             ELSE [sb |-> [before.sb EXCEPT
                             !.slices = Append(@, <<offset, next_offset>>)],
                   offset |-> next_offset,
                   panic |-> "none"]

SlicedBuffer_write(sb, slices) == SlicedBuffer_write_loop(sb, slices, Len(slices))

UiUnchanged ==
    UNCHANGED <<tasks, ran, passesRan, chanVars, submitVars, allocated,
                buffer_sizes, worldVars, batchVars, outVars, gpuVars, regVars,
                adapter, device, texture, textures_created, texture_op,
                texture_writes, allocVars, animVars, vertex_attributes>>

\* render.clear_vertex_buffer(gpu, size)
ClearVertexBuffer(size) ==
    /\ panic = "none"
    /\ vertex_buffer' = Render_clear_buffer(vertex_buffer, size)
    /\ ui_call' = [op |-> "clear", buffer |-> "vertex", size |-> size,
                   slices |-> <<>>]
    /\ UNCHANGED <<panic, index_buffer>>
    /\ UiUnchanged

\* render.clear_index_buffer(gpu, size)
ClearIndexBuffer(size) ==
    /\ panic = "none"
    /\ index_buffer' = Render_clear_buffer(index_buffer, size)
    /\ ui_call' = [op |-> "clear", buffer |-> "index", size |-> size,
                   slices |-> <<>>]
    /\ UNCHANGED <<panic, vertex_buffer>>
    /\ UiUnchanged

\* render.vertex_buffer.write(gpu, slices)
WriteVertexBuffer(slices) ==
    /\ panic = "none"
    /\ Len(vertex_buffer.slices) + Len(slices) <= MaxSlices
    /\ LET done == SlicedBuffer_write(vertex_buffer, slices)
       IN  /\ vertex_buffer' = done.sb
           /\ panic' = done.panic
    /\ ui_call' = [op |-> "write", buffer |-> "vertex", size |-> 0,
                   slices |-> slices]
    /\ UNCHANGED index_buffer
    /\ UiUnchanged

\* render.index_buffer.write(gpu, slices)
WriteIndexBuffer(slices) ==
    /\ panic = "none"
    /\ Len(index_buffer.slices) + Len(slices) <= MaxSlices
    /\ LET done == SlicedBuffer_write(index_buffer, slices)
       IN  /\ index_buffer' = done.sb
           /\ panic' = done.panic
    /\ ui_call' = [op |-> "write", buffer |-> "index", size |-> 0,
                   slices |-> slices]
    /\ UNCHANGED vertex_buffer
    /\ UiUnchanged

(***************************************************************************)
(* Animation (dotrix_core)                                                 *)
(***************************************************************************)
Joints == {"j1", "j2"}
Interpolations == {"Linear", "Step", "CubicSpline"}
ChannelKinds == {"translation", "rotation", "scale"}
\* timestamps and transformations a channel is made of; a timestamp stands
\* for an f32, a letter for a Vec3 or a Quat
TimestampLists == {<<>>, <<0>>, <<0, 2>>, <<1, 1>>}
Transformations == <<"p", "q">>
\* times asked of Animation::sample
SampleTimes == 0 .. 2

\* Channel::from: timestamps zipped with transforms
Channel_from(joint_id, interpolation, timestamps) ==
    [joint_id |-> joint_id,
     interpolation |-> interpolation,
     keyframes |-> [i \in 1 .. Len(timestamps) |->
                      [timestamp |-> timestamps[i],
                       transformation |-> Transformations[i]]]]

\* self.keyframes.len() - 1 in usize: a build with overflow checks panics on
\* 0 - 1, a build without them wraps, and the loop then indexes keyframes[0]
LoopEnd(len, checks) ==
    IF len > 0 THEN [end |-> len - 1, panic |-> "none"]
    ELSE IF checks THEN [end |-> 0, panic |-> "attempt to subtract with overflow"]
    ELSE [end |-> 0, panic |-> "index out of bounds"]

\* first.transformation.linear(next.transformation, value)
Linear(first, next, keyframe) ==
    [from |-> first.transformation, to |-> next.transformation,
     value |-> <<keyframe - first.timestamp, next.timestamp - first.timestamp>>]

\* Channel::sample from index i (counted from 1) on
RECURSIVE Channel_sample_from(_, _, _, _)
Channel_sample_from(channel, keyframe, i, end) ==
    IF i > end THEN [value |-> {}, panic |-> "none"]
    ELSE LET first == channel.keyframes[i]
             next == channel.keyframes[i + 1]
         IN  IF keyframe >= first.timestamp /\ keyframe < next.timestamp
             THEN IF channel.interpolation = "Step"
                  THEN [value |-> {first.transformation}, panic |-> "none"]
                  ELSE IF channel.interpolation = "Linear"
                  THEN [value |-> {Linear(first, next, keyframe)}, panic |-> "none"]
                  ELSE [value |-> {}, panic |-> "Unsupported interpolation"]
             ELSE Channel_sample_from(channel, keyframe, i + 1, end)

\* Channel::sample: an Option of the transformation, or a panic
Channel_sample(channel, keyframe, checks) ==
    LET loop == LoopEnd(Len(channel.keyframes), checks)
    IN  IF loop.panic # "none" THEN [value |-> {}, panic |-> loop.panic]
        ELSE Channel_sample_from(channel, keyframe, 1, loop.end)

\* TransformBuilder::from_translation, from_rotation, from_scale
TransformBuilder_from(kind, transform) ==
    [translate |-> IF kind = "translation" THEN {transform} ELSE {},
     rotate |-> IF kind = "rotation" THEN {transform} ELSE {},
     scale |-> IF kind = "scale" THEN {transform} ELSE {}]

\* one turn of a loop of Animation::sample over the channels of a kind
SampleChannel(acc, kind, channel, keyframe, checks) ==
    LET sampled == Channel_sample(channel, keyframe, checks)
        joint == channel.joint_id
    IN  IF acc.panic # "none" THEN acc
        ELSE IF sampled.panic # "none" THEN [acc EXCEPT !.panic = sampled.panic]
        ELSE IF sampled.value = {} THEN acc
        ELSE LET transform == CHOOSE v \in sampled.value : TRUE
             IN  IF kind = "translation" \/ joint \notin DOMAIN acc.result
                 THEN [acc EXCEPT !.result =
                          (joint :> TransformBuilder_from(kind, transform)) @@ @]
                 ELSE IF kind = "rotation"
                 THEN [acc EXCEPT !.result[joint].rotate = {transform}]
                 ELSE [acc EXCEPT !.result[joint].scale = {transform}]

RECURSIVE SampleChannels(_, _, _, _, _, _)
SampleChannels(acc, kind, channels, n, keyframe, checks) ==
    IF n = 0 THEN acc
    ELSE SampleChannel(SampleChannels(acc, kind, channels, n - 1, keyframe, checks),
                       kind, channels[n], keyframe, checks)

\* Animation::sample: the HashMap of joints to transform builders, or a panic
Animation_sample(anim, keyframe, checks) ==
    LET start == [result |-> Empty, panic |-> "none"]
        translated == SampleChannels(start, "translation", anim.translation,
                                     Len(anim.translation), keyframe, checks)
        rotated == SampleChannels(translated, "rotation", anim.rotation,
                                  Len(anim.rotation), keyframe, checks)
    IN  SampleChannels(rotated, "scale", anim.scale, Len(anim.scale),
                       keyframe, checks)

\* Animation::new in a build with or without overflow checks
InitAnimation(checks) ==
    /\ overflow_checks = checks
    /\ animation = [translation |-> <<>>, rotation |-> <<>>, scale |-> <<>>]
    /\ sample_call = [op |-> "new", keyframe |-> 0, result |-> Empty]

AnimationUnchanged ==
    UNCHANGED <<tasks, ran, passesRan, chanVars, submitVars, allocated,
                buffer_sizes, worldVars, batchVars, outVars, gpuVars, regVars,
                adapter, device, texture, textures_created, texture_op,
                texture_writes, allocVars, uiVars, vertex_attributes>>

\* add_translation_channel, add_rotation_channel, add_scale_channel
AddChannel(kind, joint_id, interpolation, timestamps) ==
    /\ panic = "none"
    /\ Len(animation.translation) + Len(animation.rotation)
            + Len(animation.scale) < MaxChannels
    /\ animation' = [animation EXCEPT
            ![kind] = Append(@, Channel_from(joint_id, interpolation, timestamps))]
    /\ sample_call' = [op |-> "add", keyframe |-> 0, result |-> Empty]
    /\ UNCHANGED <<panic, overflow_checks>>
    /\ AnimationUnchanged

\* animation.sample(keyframe)
Sample(keyframe) ==
    /\ panic = "none"
    /\ LET done == Animation_sample(animation, keyframe, overflow_checks)
       IN  /\ panic' = done.panic
           /\ sample_call' = [op |-> "sample", keyframe |-> keyframe,
                              result |-> done.result]
    /\ UNCHANGED <<overflow_checks, animation>>
    /\ AnimationUnchanged

(***************************************************************************)
(* map_vertex_format (dotrix-gpu)                                          *)
(***************************************************************************)
AttributeFormats ==
    {"Float32", "Float32x2", "Float32x3", "Float32x4", "Uint16x2", "Uint16x4",
     "Uint32", "Uint32x2", "Uint32x3", "Uint32x4"}

map_vertex_format(attr_format) ==
    CASE attr_format = "Float32" -> "Float32"
      [] attr_format = "Float32x2" -> "Float32x2"
      [] attr_format = "Float32x3" -> "Float32x3"
      [] attr_format = "Float32x4" -> "Float32x4"
      [] attr_format = "Uint16x2" -> "Uint16x2"
      [] attr_format = "Uint16x4" -> "Uint16x4"
      [] attr_format = "Uint32" -> "Uint32"
      [] attr_format = "Uint32x2" -> "Float32x2"
      [] attr_format = "Uint32x3" -> "Float32x3"
      [] attr_format = "Uint32x4" -> "Float32x4"

\* the vertex buffer layouts a pipeline is made for
Layouts ==
    UNION {[1 .. n -> AttributeFormats] : n \in 0 .. MaxAttributes}

\* no pipeline was made
InitAttributes ==
    vertex_attributes = [layout |-> <<>>, attributes |-> <<>>]

\* the attributes of a render pipeline: attributes().map(|(vertex_format,
\* offset, shader_location)| VertexAttribute { format:
\* map_vertex_format(vertex_format), .. })
CreateVertexAttributes(layout) ==
    /\ panic = "none"
    /\ vertex_attributes' =
            [layout |-> layout,
             attributes |-> [k \in 1 .. Len(layout) |->
                               [format |-> map_vertex_format(layout[k]),
                                shader_location |-> k - 1]]]
    /\ UNCHANGED <<tasks, ran, passesRan, panic, chanVars, submitVars, allocated,
                   buffer_sizes, worldVars, batchVars, outVars, gpuVars, regVars,
                   adapter, device, texture, textures_created, texture_op,
                   texture_writes, allocVars, uiVars, animVars>>

\* init has returned the device, and a texture was constructed
InitPlatform ==
    /\ adapter = SuitableAdapter
    /\ device = InitOutcome(SuitableAdapter).device
    /\ texture = TextureDefault
    /\ textures_created = 0
    /\ texture_op = "none"
    /\ texture_writes = <<>>
    /\ InitAllocator(1 .. Len(StoredObjects))
    /\ InitRender(0, Min(VertexAttributesSizes))
    /\ InitAnimation(TRUE)
    /\ InitAttributes

(***************************************************************************)
(* Initial state: Gpu::new, Allocator::new, Render::new, an empty world.   *)
(***************************************************************************)
InitState ==
    /\ ran = {} /\ passesRan = {} /\ panic = "none"
    /\ frame = "none" /\ buffersOut = FALSE /\ pool = <<>> /\ submitOut = FALSE
    /\ submitPc = "idle" /\ collected = <<>> /\ submitted = <<>>
    /\ submitCalls = 0 /\ deviceDone = FALSE /\ presented = FALSE
    /\ allocated = FALSE
    /\ entities = Empty /\ nextEntity = 1 /\ transforms = Empty
    /\ meshes = Empty /\ meshes_layout = <<>> /\ meshes_size = 0
    /\ transform_bases = Empty /\ material_bases = Empty
    /\ mesh_writes = <<>> /\ transform_buffer = Empty
    /\ drawn = <<>> /\ indirect_buffer_data = <<>> /\ instances_buffer_data = <<>>
    /\ frame_writes = <<>> /\ draw_calls = <<>>

\* every pass is scheduled; no asset is loaded
Init ==
    /\ InitState
    /\ buffer_sizes = DefaultBufferSizes
    /\ InitPlatform
    /\ InitGpu(CalmEnv, FpsSamples(CalmEnv.fps_request))
    /\ tasks = AllTasks
    /\ meshAssets = Empty /\ materialAssets = {}

\* the batcher's tasks are scheduled; the materials are loaded, the meshes not
InitBatch ==
    /\ InitState
    /\ buffer_sizes = DefaultBufferSizes
    /\ InitPlatform
    /\ InitGpu(CalmEnv, FpsSamples(CalmEnv.fps_request))
    /\ tasks = BatchTasks
    /\ meshAssets = Empty /\ materialAssets = Materials

\* the batcher's tasks are scheduled; every asset is loaded, the meshes non-indexed
\* and at version 1
InitVersions ==
    /\ InitState
    /\ buffer_sizes = DefaultBufferSizes
    /\ InitPlatform
    /\ InitGpu(CalmEnv, FpsSamples(CalmEnv.fps_request))
    /\ tasks = BatchTasks
    /\ meshAssets = [m \in Meshes |->
                        [version |-> 1, indexed |-> FALSE, solid |-> TRUE,
                         vertices |-> MeshVertices(m, 1)]]
    /\ materialAssets = Materials

\* sizes an Allocator may be constructed with: one buffer holds 2 vertices,
\* 2 matrices, 1 material, 1 command or 2 instances, the others the default
SmallCapacity ==
    [mesh |-> 2 * VertexSize,
     transform |-> 2 * MatrixSize,
     indirect |-> DrawIndirectSize,
     instances |-> 2 * InstanceSize,
     materials |-> MaterialUniformSize]

\* the batcher's tasks are scheduled and every asset is loaded; one of the
\* Allocator's buffers is small
InitCapacity ==
    /\ InitState
    /\ \E b \in DOMAIN SmallCapacity :
        buffer_sizes = [DefaultBufferSizes EXCEPT ![b] = SmallCapacity[b]]
    /\ InitPlatform
    /\ InitGpu(CalmEnv, FpsSamples(CalmEnv.fps_request))
    /\ tasks = BatchTasks
    /\ meshAssets = [m \in Meshes |->
                        [version |-> 1, indexed |-> FALSE, solid |-> TRUE,
                         vertices |-> MeshVertices(m, 1)]]
    /\ materialAssets = Materials

\* the batcher's tasks are scheduled; no asset is loaded
InitAssets ==
    /\ InitState
    /\ buffer_sizes = DefaultBufferSizes
    /\ InitPlatform
    /\ InitGpu(CalmEnv, FpsSamples(CalmEnv.fps_request))
    /\ tasks = BatchTasks
    /\ meshAssets = Empty /\ materialAssets = {}

\* the process starts on a system with any adapter; init has not run
InitAdapter ==
    /\ InitState
    /\ buffer_sizes = DefaultBufferSizes
    /\ InitGpu(CalmEnv, FpsSamples(CalmEnv.fps_request))
    /\ tasks = {}
    /\ meshAssets = Empty /\ materialAssets = {}
    /\ adapter \in Adapters
    /\ device = {}
    /\ texture = TextureDefault
    /\ textures_created = 0
    /\ texture_op = "none"
    /\ texture_writes = <<>>
    /\ InitAllocator(1 .. Len(StoredObjects))
    /\ InitRender(0, Min(VertexAttributesSizes))
    /\ InitAnimation(TRUE)
    /\ InitAttributes

\* a texture of any kind is constructed; no task is scheduled
InitTexture ==
    /\ InitState
    /\ buffer_sizes = DefaultBufferSizes
    /\ InitGpu(CalmEnv, FpsSamples(CalmEnv.fps_request))
    /\ tasks = {}
    /\ meshAssets = Empty /\ materialAssets = {}
    /\ adapter = SuitableAdapter
    /\ device = InitOutcome(SuitableAdapter).device
    /\ \E kind \in TextureKinds : texture = Texture_new(kind)
    /\ textures_created = 0
    /\ texture_op = "none"
    /\ texture_writes = <<>>
    /\ InitAllocator(1 .. Len(StoredObjects))
    /\ InitRender(0, Min(VertexAttributesSizes))
    /\ InitAnimation(TRUE)
    /\ InitAttributes

\* no task is scheduled: the registry is called directly
InitRegistry ==
    /\ InitState
    /\ buffer_sizes = DefaultBufferSizes
    /\ InitPlatform
    /\ InitGpu(CalmEnv, FpsSamples(CalmEnv.fps_request))
    /\ tasks = {}
    /\ meshAssets = Empty /\ materialAssets = {}

\* the Allocator is scheduled with the frame tasks; new_v4 may give any
\* uuid, and other users store objects in the registry
InitAllocation ==
    /\ InitState
    /\ buffer_sizes = DefaultBufferSizes
    /\ adapter = SuitableAdapter
    /\ device = InitOutcome(SuitableAdapter).device
    /\ texture = TextureDefault
    /\ textures_created = 0
    /\ texture_op = "none"
    /\ texture_writes = <<>>
    /\ InitAllocator(1 .. MaxFreshUuids)
    /\ InitRender(0, Min(VertexAttributesSizes))
    /\ InitAnimation(TRUE)
    /\ InitAttributes
    /\ InitGpu(CalmEnv, FpsSamples(CalmEnv.fps_request))
    /\ tasks = FrameTasks \cup {"Allocator"}
    /\ meshAssets = Empty /\ materialAssets = {}

\* a ui Render is constructed with any initial vertex count; no task is
\* scheduled
InitSliced ==
    /\ InitState
    /\ buffer_sizes = DefaultBufferSizes
    /\ adapter = SuitableAdapter
    /\ device = InitOutcome(SuitableAdapter).device
    /\ texture = TextureDefault
    /\ textures_created = 0
    /\ texture_op = "none"
    /\ texture_writes = <<>>
    /\ InitAllocator(1 .. Len(StoredObjects))
    /\ \E initial_vertex_count \in 0 .. MaxInitialVertexCount,
          vertex_size \in VertexAttributesSizes :
            InitRender(initial_vertex_count, vertex_size)
    /\ InitAnimation(TRUE)
    /\ InitAttributes
    /\ InitGpu(CalmEnv, FpsSamples(CalmEnv.fps_request))
    /\ tasks = {}
    /\ meshAssets = Empty /\ materialAssets = {}

\* an Animation is constructed in either build; no task is scheduled
InitAnimated ==
    /\ InitState
    /\ buffer_sizes = DefaultBufferSizes
    /\ adapter = SuitableAdapter
    /\ device = InitOutcome(SuitableAdapter).device
    /\ texture = TextureDefault
    /\ textures_created = 0
    /\ texture_op = "none"
    /\ texture_writes = <<>>
    /\ InitAllocator(1 .. Len(StoredObjects))
    /\ InitRender(0, Min(VertexAttributesSizes))
    /\ \E checks \in BOOLEAN : InitAnimation(checks)
    /\ InitAttributes
    /\ InitGpu(CalmEnv, FpsSamples(CalmEnv.fps_request))
    /\ tasks = {}
    /\ meshAssets = Empty /\ materialAssets = {}

\* frames are produced and presented with no pass scheduled; the clock varies
InitTiming ==
    /\ InitState
    /\ buffer_sizes = DefaultBufferSizes
    /\ InitPlatform
    /\ \E capacity \in WithCapacity(FpsSamples(TimingEnv.fps_request)) :
        InitGpu(TimingEnv, capacity)
    /\ tasks = FrameTasks
    /\ meshAssets = Empty /\ materialAssets = {}

\* frames are produced and presented while the window is resized and the
\* surface may be lost
InitSurface ==
    /\ InitState
    /\ buffer_sizes = DefaultBufferSizes
    /\ InitPlatform
    /\ InitGpu(SurfaceEnv, FpsSamples(SurfaceEnv.fps_request))
    /\ tasks = SurfaceTasks
    /\ meshAssets = Empty /\ materialAssets = {}

(***************************************************************************)
(* dotrix-gpu tasks                                                        *)
(***************************************************************************)
\* frames_duration.pop_back() if len() == capacity()
PopBackAlways(window, capacity) ==
    IF window # <<>> THEN SubSeq(window, 1, Len(window) - 1) ELSE window
PopBackIfFull(window, capacity) ==
    IF Len(window) = capacity /\ window # <<>>
    THEN SubSeq(window, 1, Len(window) - 1)
    ELSE window

\* frames_duration.push_front(delta)
PushBack(window, delta) == Append(window, delta)
PushFront(window, delta) == <<delta>> \o window

RECURSIVE SumDurations(_)
SumDurations(window) ==
    IF window = <<>> THEN 0 ELSE Head(window) + SumDurations(Tail(window))

\* the request is applied if width > 0 && height > 0
ValidSizeAlways(size) == TRUE
ValidSize(size) == size[1] > 0 /\ size[2] > 0

\* the surface calls from get_current_texture on: one attempt, and after an
\* Err one configure and one more attempt
AcquireNoRetry(first, second) == <<[call |-> "get_current_texture", result |-> first]>>
Acquire(first, second) ==
    IF first = "Ok"
    THEN <<[call |-> "get_current_texture", result |-> first]>>
    ELSE <<[call |-> "get_current_texture", result |-> first],
           [call |-> "configure", result |-> surface_conf'],
           [call |-> "get_current_texture", result |-> second]>>

\* last_frame.replace(Instant::now()).map(|i| i.elapsed())
\*     .unwrap_or_else(|| Duration::from_secs_f32(1.0 / fps_request))
DeltaAlwaysElapsed(last, elapsed, fps_request) == elapsed
Delta(last, elapsed, fps_request) ==
    IF last THEN elapsed ELSE fps_request.period

\* what renderer.resize_request.take() leaves in the option
OptionTakeIfValid(option) ==
    IF option # None /\ ~ValidSize(option) THEN option ELSE None
OptionTake(option) == None

\* CreateFrame::run: measures the frame, applies a pending resize request,
\* acquires the frame's image and outputs the Frame
CreateFrame ==
    /\ CanRun("CreateFrame")
    /\ \E elapsed \in env.deltas, first \in env.acquire, second \in env.acquire :
        LET delta == Delta(last_frame, elapsed, env.fps_request)
            window == PushFront(PopBackIfFull(frames_duration, frames_capacity),
                                delta)
            applied == resize_request # None /\ ValidSize(resize_request)
            acquire == Acquire(first, second)
        IN  /\ last_frame' = TRUE
            /\ measured' = IF last_frame THEN {elapsed} ELSE {}
            /\ frames_duration' = window
            /\ fps' = <<Len(window), SumDurations(window)>>
            /\ taken' = resize_request
            /\ resize_request' = OptionTake(resize_request)
            /\ surface_conf' = IF applied THEN resize_request ELSE surface_conf
            /\ surface_calls' =
                    (IF applied
                     THEN <<[call |-> "configure", result |-> resize_request]>>
                     ELSE <<>>) \o acquire
            /\ IF acquire[Len(acquire)].result = "Ok"
               THEN /\ frame' = "ready"
                    /\ frame_delta' = delta
                    /\ panic' = panic
               ELSE /\ frame' = frame
                    /\ frame_delta' = frame_delta
                    /\ panic' = "Failed to acquire next surface texture"
    /\ ran' = ran \cup {"CreateFrame"}
    /\ UNCHANGED <<tasks, passesRan, buffersOut, pool, submitOut>>
    /\ UNCHANGED <<env, frames_capacity, requested>>
    /\ UNCHANGED <<submitVars, allocated, buffer_sizes, platformVars, regVars, worldVars, batchVars, outVars>>

\* ResizeSurface::run, and Gpu::resize_request: the request replaces any
\* pending one
ResizeSurfaceKeepFirst(width, height) ==
    /\ panic = "none" /\ "ResizeSurface" \in tasks
    /\ resize_request = None \/ Len(requested) < MaxPendingRequests
    /\ resize_request' = IF resize_request = None THEN <<width, height>>
                         ELSE resize_request
    /\ requested' = IF resize_request = None THEN << <<width, height>> >>
                    ELSE Append(requested, <<width, height>>)
    /\ UNCHANGED <<schedVars, chanVars, submitVars, allocated, buffer_sizes, platformVars, regVars, worldVars,
                   batchVars, outVars>>
    /\ UNCHANGED <<env, frames_duration, frames_capacity, last_frame, measured, fps,
                   surface_conf, taken, surface_calls, frame_delta>>
ResizeSurfaceImmediate(width, height) ==
    /\ panic = "none" /\ "ResizeSurface" \in tasks
    /\ resize_request = None \/ Len(requested) < MaxPendingRequests
    /\ resize_request' = <<width, height>>
    /\ surface_conf' = <<width, height>>
    /\ requested' = IF resize_request = None THEN << <<width, height>> >>
                    ELSE Append(requested, <<width, height>>)
    /\ UNCHANGED <<schedVars, chanVars, submitVars, allocated, buffer_sizes, platformVars, regVars, worldVars,
                   batchVars, outVars>>
    /\ UNCHANGED <<env, frames_duration, frames_capacity, last_frame, measured, fps,
                   taken, surface_calls, frame_delta>>
ResizeSurface(width, height) ==
    /\ panic = "none" /\ "ResizeSurface" \in tasks
    /\ resize_request = None \/ Len(requested) < MaxPendingRequests
    /\ resize_request' = <<width, height>>
    /\ requested' = IF resize_request = None THEN << <<width, height>> >>
                    ELSE Append(requested, <<width, height>>)
    /\ UNCHANGED <<schedVars, chanVars, submitVars, allocated, buffer_sizes, platformVars, regVars, worldVars,
                   batchVars, outVars>>
    /\ UNCHANGED <<env, frames_duration, frames_capacity, last_frame, measured, fps,
                   surface_conf, taken, surface_calls, frame_delta>>

\* ClearFrame::run
ClearFrame ==
    /\ CanRun("ClearFrame")
    /\ AnyFrame
    /\ ran' = ran \cup {"ClearFrame"}
    /\ pool' = Append(pool, Finish("ClearFrame", 0, ClearFramePriority))
    /\ UNCHANGED <<tasks, passesRan, panic, frame, buffersOut, submitOut>>
    /\ UNCHANGED <<submitVars, allocated, buffer_sizes, platformVars, gpuVars, regVars, worldVars, batchVars, outVars>>

\* any other pass that records into its own encoder and finishes it
OtherPass(i, priority) ==
    /\ panic = "none" /\ "OtherPass" \in tasks /\ i \notin passesRan
    /\ AnyFrame
    /\ passesRan' = passesRan \cup {i}
    /\ pool' = Append(pool, Finish("OtherPass", i, priority))
    /\ UNCHANGED <<tasks, ran, panic, frame, buffersOut, submitOut>>
    /\ UNCHANGED <<submitVars, allocated, buffer_sizes, platformVars, gpuVars, regVars, worldVars, batchVars, outVars>>

\* SubmitCommands::run up to queue.submit
SubmitCommandsNoCollect ==
    /\ CanRun("SubmitCommands")
    /\ AnyFrame
    /\ ran' = ran \cup {"SubmitCommands"}
    /\ collected' = pool
    /\ pool' = <<>>
    /\ submitted' = submitted \o SortByPriority(pool)
    /\ submitCalls' = submitCalls + 1
    /\ submitPc' = "polling"
    /\ UNCHANGED <<tasks, passesRan, panic, frame, buffersOut, submitOut>>
    /\ UNCHANGED <<deviceDone, presented, allocated, buffer_sizes, platformVars, gpuVars, regVars, worldVars, batchVars, outVars>>
SubmitCommands ==
    /\ CanRun("SubmitCommands")
    /\ AnyFrame
    /\ CollectCommands
    /\ ran' = ran \cup {"SubmitCommands"}
    /\ collected' = pool
    /\ pool' = <<>>
    /\ submitted' = submitted \o SortByPriority(pool)
    /\ submitCalls' = submitCalls + 1
    /\ submitPc' = "polling"
    /\ UNCHANGED <<tasks, passesRan, panic, frame, buffersOut, submitOut>>
    /\ UNCHANGED <<deviceDone, presented, allocated, buffer_sizes, platformVars, gpuVars, regVars, worldVars, batchVars, outVars>>

\* the device finishes the submitted work
DeviceProcess ==
    /\ panic = "none"
    /\ submitPc = "polling" /\ ~deviceDone
    /\ deviceDone' = TRUE
    /\ UNCHANGED <<schedVars, chanVars, submitPc, collected, submitted, submitCalls,
                   presented, allocated, buffer_sizes, platformVars, gpuVars, regVars, worldVars, batchVars, outVars>>

\* SubmitCommands::run: device.poll(WaitForSubmissionIndex(index)) returns true
SubmitCommandsPollNoWait ==
    /\ panic = "none"
    /\ submitPc = "polling"
    /\ submitPc' = "returned"
    /\ submitOut' = TRUE
    /\ UNCHANGED <<schedVars, frame, buffersOut, pool, collected, submitted,
                   submitCalls, deviceDone, presented, allocated, buffer_sizes, platformVars, gpuVars,
                   regVars, worldVars, batchVars, outVars>>
SubmitCommandsPoll ==
    /\ panic = "none"
    /\ submitPc = "polling"
    /\ deviceDone
    /\ submitPc' = "returned"
    /\ submitOut' = TRUE
    /\ UNCHANGED <<schedVars, frame, buffersOut, pool, collected, submitted,
                   submitCalls, deviceDone, presented, allocated, buffer_sizes, platformVars, gpuVars, regVars, worldVars,
                   batchVars, outVars>>

\* PresentFrame::run
PresentFrameNoSubmit ==
    /\ CanRun("PresentFrame")
    /\ AnyFrame
    /\ ran' = ran \cup {"PresentFrame"}
    /\ frame' = "none"
    /\ submitOut' = FALSE
    /\ presented' = TRUE
    /\ UNCHANGED <<tasks, passesRan, panic, buffersOut, pool>>
    /\ UNCHANGED <<submitPc, collected, submitted, submitCalls, deviceDone>>
    /\ UNCHANGED <<allocated, buffer_sizes, platformVars, gpuVars, regVars, worldVars, batchVars, outVars>>
PresentFrameKeepsFrame ==
    /\ CanRun("PresentFrame")
    /\ AnyFrame
    /\ TakeSubmitCommands
    /\ ran' = ran \cup {"PresentFrame"}
    /\ frame' = frame
    /\ submitOut' = FALSE
    /\ presented' = TRUE
    /\ UNCHANGED <<tasks, passesRan, panic, buffersOut, pool>>
    /\ UNCHANGED <<submitPc, collected, submitted, submitCalls, deviceDone>>
    /\ UNCHANGED <<allocated, buffer_sizes, platformVars, gpuVars, regVars, worldVars, batchVars, outVars>>
PresentFrame ==
    /\ CanRun("PresentFrame")
    /\ AnyFrame
    /\ TakeSubmitCommands
    /\ ran' = ran \cup {"PresentFrame"}
    /\ frame' = "none"
    /\ submitOut' = FALSE
    /\ presented' = TRUE
    /\ UNCHANGED <<tasks, passesRan, panic, buffersOut, pool>>
    /\ UNCHANGED <<submitPc, collected, submitted, submitCalls, deviceDone>>
    /\ UNCHANGED <<allocated, buffer_sizes, platformVars, gpuVars, regVars, worldVars, batchVars, outVars>>

\* PresentFrame's output goes to the scheduler, which starts the next cycle
NextCycle ==
    /\ panic = "none"
    /\ "PresentFrame" \in ran
    /\ ran' = {} /\ passesRan' = {}
    /\ buffersOut' = FALSE
    /\ submitPc' = "idle" /\ collected' = <<>> /\ submitted' = <<>>
    /\ submitCalls' = 0 /\ deviceDone' = FALSE /\ presented' = FALSE
    /\ drawn' = <<>> /\ indirect_buffer_data' = <<>> /\ instances_buffer_data' = <<>>
    /\ frame_writes' = <<>> /\ draw_calls' = <<>>
    /\ UNCHANGED <<tasks, panic, frame, pool, submitOut>>
    /\ UNCHANGED <<allocated, buffer_sizes, platformVars, gpuVars, regVars, worldVars, batchVars>>

\* init: the adapter is tested and the device requested
init ==
    /\ panic = "none" /\ device = {}
    /\ panic' = InitOutcome(adapter).panic
    /\ device' = InitOutcome(adapter).device
    /\ UNCHANGED <<tasks, ran, passesRan, chanVars, submitVars, allocated,
                   buffer_sizes, worldVars, batchVars, outVars, gpuVars, regVars>>
    /\ UNCHANGED <<adapter, texture, textures_created, texture_op, texture_writes,
                   allocVars, uiVars, animVars, vertex_attributes>>

(***************************************************************************)
(* Calls on the texture                                                    *)
(***************************************************************************)
TextureUnchanged ==
    UNCHANGED <<tasks, ran, passesRan, chanVars, submitVars, allocated,
                buffer_sizes, worldVars, batchVars, outVars, gpuVars, regVars,
                adapter, device, allocVars, uiVars, animVars, vertex_attributes>>

\* texture.init(ctx, width, height, layers_count)
CallInit(layers_count) ==
    /\ panic = "none" /\ textures_created < MaxTextures
    /\ LET done == Texture_init(texture, textures_created + 1, layers_count)
       IN  /\ texture' = done.texture
           /\ panic' = done.panic
    /\ textures_created' = textures_created + 1
    /\ texture_op' = "init"
    /\ texture_writes' = <<>>
    /\ TextureUnchanged

\* texture.load(ctx, width, height, layers)
CallLoad(layers) ==
    /\ panic = "none" /\ textures_created < MaxTextures
    /\ LET done == Texture_load(texture, textures_created + 1, layers)
       IN  /\ texture' = done.texture
           /\ texture_writes' = done.writes
           /\ panic' = done.panic
           /\ textures_created' =
                    IF done.texture = texture THEN textures_created
                    ELSE textures_created + 1
    /\ texture_op' = "load"
    /\ TextureUnchanged

\* texture.update(ctx, width, height, layers)
CallUpdate(layers) ==
    /\ panic = "none"
    /\ LET done == Texture_update(texture, layers)
       IN  /\ texture' = done.texture
           /\ texture_writes' = done.writes
           /\ panic' = done.panic
    /\ texture_op' = "update"
    /\ UNCHANGED textures_created
    /\ TextureUnchanged

\* texture.update_or_load(ctx, width, height, layers)
CallUpdateOrLoad(layers) ==
    /\ panic = "none"
    /\ texture.wgpu_texture = {} => textures_created < MaxTextures
    /\ LET done == IF texture.wgpu_texture = {}
                   THEN Texture_load(texture, textures_created + 1, layers)
                   ELSE Texture_update(texture, layers)
       IN  /\ texture' = done.texture
           /\ texture_writes' = done.writes
           /\ panic' = done.panic
           /\ textures_created' =
                    IF done.texture = texture THEN textures_created
                    ELSE textures_created + 1
    /\ texture_op' = "update_or_load"
    /\ TextureUnchanged

\* texture.unload()
CallUnload ==
    /\ panic = "none"
    /\ texture' = Texture_unload(texture)
    /\ texture_op' = "unload"
    /\ texture_writes' = <<>>
    /\ UNCHANGED <<panic, textures_created>>
    /\ TextureUnchanged

(***************************************************************************)
(* Gpu::storage: HashMap<Uuid, Box<dyn Any>>                               *)
(***************************************************************************)
Keys(map) == {e.uuid : e \in map}

\* HashMap::insert: the entry of the key is replaced
HashMapInsertKeepOld(map, uuid, type, data) ==
    IF uuid \in Keys(map) THEN map
    ELSE map \cup {[uuid |-> uuid, type |-> type, data |-> data]}
HashMapInsert(map, uuid, type, data) ==
    {e \in map : e.uuid # uuid} \cup {[uuid |-> uuid, type |-> type, data |-> data]}

\* HashMap::get: the entry of the key; an Option is the set of what it holds
HashMapGet(map, uuid) == {e \in map : e.uuid = uuid}

\* Uuid::new_v4(): a random uuid, taken to differ from every uuid in use
NewV4Used(map) == Keys(map)
NewV4(map) == Uuids \ Keys(map)

\* storage.get(id.uuid()).and_then(|data| data.downcast_ref::<T>())
GetUntyped(map, uuid, type) == {e.data : e \in HashMapGet(map, uuid)}
Get(map, uuid, type) ==
    {e.data : e \in {d \in HashMapGet(map, uuid) : d.type = type}}

RegistryUnchanged ==
    UNCHANGED <<schedVars, chanVars, submitVars, allocated, buffer_sizes, platformVars, worldVars, batchVars,
                outVars, gpuVars>>

\* Gpu::store
Store(type, data) ==
    /\ panic = "none"
    /\ \E raw_id \in NewV4(storage) :
        /\ storage' = HashMapInsert(storage, raw_id, type, data)
        /\ last_call' = [op |-> "store", uuid |-> raw_id, type |-> type,
                         data |-> data, id |-> {raw_id}, replaced |-> {},
                         result |-> {}]
    /\ UNCHANGED queue_writes
    /\ RegistryUnchanged

\* Gpu::store_as
StoreAs(uuid, type, data) ==
    /\ panic = "none"
    /\ storage' = HashMapInsert(storage, uuid, type, data)
    /\ last_call' = [op |-> "store_as", uuid |-> uuid, type |-> type,
                     data |-> data, id |-> {},
                     replaced |-> HashMapGet(storage, uuid), result |-> {}]
    /\ UNCHANGED queue_writes
    /\ RegistryUnchanged

\* Gpu::get and Gpu::get_mut
GetCall(op, uuid, type) ==
    /\ panic = "none"
    /\ last_call' = [op |-> op, uuid |-> uuid, type |-> type,
                     data |-> None, id |-> {}, replaced |-> {},
                     result |-> Get(storage, uuid, type)]
    /\ UNCHANGED <<storage, queue_writes>>
    /\ RegistryUnchanged

\* Gpu::write_buffer_by_id
WriteBufferById(uuid, offset, data) ==
    /\ panic = "none"
    /\ Len(queue_writes) < MaxQueueWrites
    /\ LET buffer == Get(storage, uuid, "Buffer")
       IN  /\ last_call' = [op |-> "write_buffer_by_id", uuid |-> uuid,
                            type |-> "Buffer", data |-> data, id |-> {},
                            replaced |-> {}, result |-> buffer]
           /\ queue_writes' =
                    IF buffer # {}
                    THEN Append(queue_writes,
                             [buffer |-> buffer, offset |-> offset, data |-> data])
                    ELSE queue_writes
    /\ UNCHANGED storage
    /\ RegistryUnchanged

(***************************************************************************)
(* dotrix-pbr tasks                                                        *)
(***************************************************************************)
\* Allocator::run
Allocator ==
    /\ CanRun("Allocator")
    /\ \E ids \in (IF OptionIsNone(buffers)
                   THEN FreshIds(uuid_source, storage, Len(StoredObjects))
                   ELSE {<<>>}) :
        LET run == Allocator_run(buffers, storage, ids)
        IN  /\ buffers' = run.buffers
            /\ storage' = run.storage
            /\ device_calls' = device_calls \o run.calls
            /\ returned' = {run.output}
    /\ ran' = ran \cup {"Allocator"}
    /\ allocated' = TRUE
    /\ buffersOut' = TRUE
    /\ UNCHANGED <<buffer_sizes, adapter, device, texture, textures_created,
                   texture_op, texture_writes, uuid_source, uiVars, animVars,
                   vertex_attributes>>
    /\ UNCHANGED <<tasks, passesRan, panic, frame, pool, submitOut>>
    /\ UNCHANGED <<last_call, queue_writes>>
    /\ UNCHANGED <<submitVars, gpuVars, worldVars, batchVars, outVars>>

\* Render::run
Render ==
    /\ CanRun("Render")
    /\ AnyBuffers
    /\ AnyFrame
    /\ \E order \in QueryOrders :
        \E st \in {RunLoop([meshes |-> meshes, meshes_layout |-> meshes_layout,
                    meshes_size |-> meshes_size,
                    transform_bases |-> transform_bases,
                    material_bases |-> material_bases,
                    mesh_writes |-> mesh_writes,
                    transform_buffer |-> transform_buffer,
                    draw_entries |-> Empty, drawn |-> <<>>, frame_writes |-> <<>>,
                    panic |-> "none"], order)} :
        \E acc \in {WriteBulk(st.frame_writes,
                        BuildIndirect(st.meshes_layout, st.draw_entries, 0,
                            [indirect |-> <<>>, instances |-> <<>>,
                             panic |-> st.panic]))} :
            /\ meshes' = st.meshes
            /\ meshes_layout' = st.meshes_layout
            /\ meshes_size' = st.meshes_size
            /\ transform_bases' = st.transform_bases
            /\ material_bases' = st.material_bases
            /\ mesh_writes' = st.mesh_writes
            /\ transform_buffer' = st.transform_buffer
            /\ drawn' = st.drawn
            /\ panic' = acc.panic
            /\ frame_writes' = acc.writes
            /\ draw_calls' = IF acc.panic = "none"
                             THEN <<MultiDrawIndirect(0, Len(acc.indirect))>>
                             ELSE <<>>
            /\ instances_buffer_data' = acc.instances
            /\ indirect_buffer_data' = acc.indirect
            /\ pool' = IF acc.panic = "none"
                       THEN Append(pool, Finish("Render", 0, RenderPriority))
                       ELSE pool
    /\ ran' = ran \cup {"Render"}
    /\ UNCHANGED <<tasks, passesRan, frame, buffersOut, submitOut>>
    /\ UNCHANGED <<submitVars, allocated, buffer_sizes, platformVars, gpuVars, regVars, worldVars>>

(***************************************************************************)
(* The world and the assets.  Render reads them once, in its run, so a     *)
(* change made anywhere between two runs of Render is placed at the start  *)
(* of the cycle.  Render reads nothing of the frame measurement, so the    *)
(* changes are placed after the frames in which the window of frame        *)
(* durations fills.                                                        *)
(***************************************************************************)
BetweenFrames ==
    /\ panic = "none" /\ ran = {}
    /\ Len(frames_duration) = frames_capacity

Spawn(mesh_id, material_id) ==
    /\ BetweenFrames
    /\ nextEntity <= MaxEntities
    /\ entities' = (nextEntity :> [mesh |-> mesh_id, material |-> material_id])
                   @@ entities
    /\ transforms' = (nextEntity :> IdentityMatrix) @@ transforms
    /\ nextEntity' = nextEntity + 1
    /\ UNCHANGED <<schedVars, chanVars, submitVars, allocated, buffer_sizes, platformVars, gpuVars, regVars,
                   meshAssets, materialAssets, batchVars, outVars>>

Despawn(entity_id) ==
    /\ BetweenFrames
    /\ entity_id \in DOMAIN entities
    /\ entities' = [e \in DOMAIN entities \ {entity_id} |-> entities[e]]
    /\ transforms' = [e \in DOMAIN transforms \ {entity_id} |-> transforms[e]]
    /\ UNCHANGED <<schedVars, chanVars, submitVars, allocated, buffer_sizes, platformVars, gpuVars, regVars,
                   nextEntity, meshAssets, materialAssets, batchVars, outVars>>

\* a mesh asset finishes loading
LoadMesh(mesh_id, indexed, solid) ==
    /\ BetweenFrames
    /\ mesh_id \notin DOMAIN meshAssets
    /\ meshAssets' = (mesh_id :> [version |-> 1, indexed |-> indexed,
                                  solid |-> solid,
                                  vertices |-> MeshVertices(mesh_id, 1)])
                     @@ meshAssets
    /\ UNCHANGED <<schedVars, chanVars, submitVars, allocated, buffer_sizes, platformVars, gpuVars, regVars,
                   entities, nextEntity, transforms, materialAssets, batchVars,
                   outVars>>

\* the content of a mesh asset changes and its version is bumped
ChangeMesh(mesh_id) ==
    /\ BetweenFrames
    /\ mesh_id \in DOMAIN meshAssets
    /\ meshAssets[mesh_id].version < MaxVersion
    /\ meshAssets' = [meshAssets EXCEPT ![mesh_id].version = @ + 1,
                                        ![mesh_id].vertices =
                            MeshVertices(mesh_id, meshAssets[mesh_id].version + 1)]
    /\ UNCHANGED <<schedVars, chanVars, submitVars, allocated, buffer_sizes, platformVars, gpuVars, regVars,
                   entities, nextEntity, transforms, materialAssets, batchVars,
                   outVars>>

\* Mesh::with_indices on a loaded mesh asset: the mesh becomes indexed
WithIndices(mesh_id) ==
    /\ BetweenFrames
    /\ mesh_id \in DOMAIN meshAssets
    /\ ~meshAssets[mesh_id].indexed
    /\ meshAssets' = [meshAssets EXCEPT ![mesh_id].indexed = TRUE]
    /\ UNCHANGED <<schedVars, chanVars, submitVars, allocated, buffer_sizes, platformVars, gpuVars,
                   regVars, entities, nextEntity, transforms, materialAssets,
                   batchVars, outVars>>

\* an entity's Transform component changes
SetTransform(entity_id, matrix) ==
    /\ BetweenFrames
    /\ entity_id \in DOMAIN entities
    /\ transforms[entity_id] # matrix
    /\ transforms' = [transforms EXCEPT ![entity_id] = matrix]
    /\ UNCHANGED <<schedVars, chanVars, submitVars, allocated, buffer_sizes, platformVars, gpuVars, regVars,
                   entities, nextEntity, meshAssets, materialAssets, batchVars,
                   outVars>>

\* a material asset finishes loading
LoadMaterial(material_id) ==
    /\ BetweenFrames
    /\ material_id \notin materialAssets
    /\ materialAssets' = materialAssets \cup {material_id}
    /\ UNCHANGED <<schedVars, chanVars, submitVars, allocated, buffer_sizes, platformVars, gpuVars, regVars,
                   entities, nextEntity, transforms, meshAssets, batchVars, outVars>>

(***************************************************************************)
(* Specifications                                                          *)
(***************************************************************************)
\* the frame pipeline with every pass scheduled, over an empty world
Next ==
    \/ CreateFrame
    \/ Allocator
    \/ ClearFrame
    \/ \E i \in OtherPasses, p \in Priorities : OtherPass(i, p)
    \/ Render
    \/ SubmitCommands
    \/ DeviceProcess
    \/ SubmitCommandsPoll
    \/ PresentFrame
    \/ NextCycle

Spec == Init /\ [][Next]_vars

\* the batcher over a world whose entities come and go and whose meshes load
FramePipeline ==
    \/ CreateFrame
    \/ Allocator
    \/ Render
    \/ SubmitCommands
    \/ DeviceProcess
    \/ SubmitCommandsPoll
    \/ PresentFrame
    \/ NextCycle

NextBatch ==
    \/ FramePipeline
    \/ \E m \in Meshes, a \in Materials : Spawn(m, a)
    \/ \E e \in 1 .. MaxEntities : Despawn(e)
    \/ \E m \in Meshes : LoadMesh(m, FALSE, TRUE)

SpecBatch == InitBatch /\ [][NextBatch]_vars

\* the batcher over loaded assets whose meshes change their content
NextVersions ==
    \/ FramePipeline
    \/ \E m \in Meshes, a \in Materials : Spawn(m, a)
    \/ \E m \in Meshes : ChangeMesh(m)

SpecVersions == InitVersions /\ [][NextVersions]_vars

\* the batcher over loaded assets and entities of one mesh and one material
\* that move, come and go
NextTransforms ==
    \/ FramePipeline
    \/ Spawn("m1", "a1")
    \/ \E e \in 1 .. MaxEntities : Despawn(e)
    \/ \E e \in 1 .. MaxEntities, matrix \in Matrices : SetTransform(e, matrix)

SpecTransforms == InitVersions /\ [][NextTransforms]_vars

\* frame after frame under a clock that varies
NextTiming ==
    \/ CreateFrame
    \/ SubmitCommands
    \/ DeviceProcess
    \/ SubmitCommandsPoll
    \/ PresentFrame
    \/ NextCycle

SpecTiming == InitTiming /\ [][NextTiming]_vars

\* frame after frame while resize requests arrive and acquisitions fail
NextSurface ==
    \/ NextTiming
    \/ \E width \in Sizes, height \in Sizes : ResizeSurface(width, height)

SpecSurface == InitSurface /\ [][NextSurface]_vars

\* calls of the registry in any order
NextRegistry ==
    \/ \E type \in Types, data \in Objects : Store(type, data)
    \/ \E uuid \in Uuids, type \in Types, data \in Objects : StoreAs(uuid, type, data)
    \/ \E uuid \in Uuids, type \in Types : GetCall("get", uuid, type)
    \/ \E uuid \in Uuids, type \in Types : GetCall("get_mut", uuid, type)
    \/ \E uuid \in Uuids : WriteBufferById(uuid, 0, "bytes")

SpecRegistry == InitRegistry /\ [][NextRegistry]_vars

\* the batcher over loaded assets and buffers that fill up
NextCapacity ==
    \/ FramePipeline
    \/ \E m \in Meshes, a \in Materials : Spawn(m, a)

SpecCapacity == InitCapacity /\ [][NextCapacity]_vars

\* the batcher over a world whose entities come and go while the meshes and
\* the materials load
NextAssets ==
    \/ FramePipeline
    \/ \E m \in Meshes, a \in Materials : Spawn(m, a)
    \/ \E e \in 1 .. MaxEntities : Despawn(e)
    \/ \E m \in Meshes : LoadMesh(m, FALSE, TRUE)
    \/ \E a \in Materials : LoadMaterial(a)

SpecAssets == InitAssets /\ [][NextAssets]_vars

\* the batcher over meshes that load with or without indices and that are
\* given indices later
NextIndexed ==
    \/ FramePipeline
    \/ \E m \in Meshes, a \in Materials : Spawn(m, a)
    \/ \E m \in Meshes, indexed \in BOOLEAN : LoadMesh(m, indexed, TRUE)
    \/ \E m \in Meshes : WithIndices(m)

SpecIndexed == InitBatch /\ [][NextIndexed]_vars

\* frame after frame with a device that completes every submission, a
\* SubmitCommands that goes on with its loop and a scheduler that runs the
\* task whose inputs are there
SpecLive ==
    /\ InitTiming
    /\ [][NextTiming]_vars
    /\ WF_vars(DeviceProcess)
    /\ WF_vars(SubmitCommandsPoll)
    /\ WF_vars(PresentFrame)

\* the start of the process on any adapter
NextInit ==
    \/ init

SpecInit == InitAdapter /\ [][NextInit]_vars

\* calls on a texture in any order
NextTexture ==
    \/ \E layers_count \in LayersCounts : CallInit(layers_count)
    \/ \E layers \in LayersData : CallLoad(layers)
    \/ \E layers \in LayersData : CallUpdate(layers)
    \/ \E layers \in LayersData : CallUpdateOrLoad(layers)
    \/ CallUnload

SpecTexture == InitTexture /\ [][NextTexture]_vars

\* the Allocator runs frame after frame while other users store objects
NextAllocation ==
    \/ CreateFrame
    \/ Allocator
    \/ SubmitCommands
    \/ DeviceProcess
    \/ SubmitCommandsPoll
    \/ PresentFrame
    \/ NextCycle
    \/ \E type \in Types, data \in Objects : Store(type, data)

SpecAllocation == InitAllocation /\ [][NextAllocation]_vars

\* calls on the sliced buffers of the ui Render in any order
NextSliced ==
    \/ \E size \in ClearSizes : ClearVertexBuffer(size)
    \/ \E size \in ClearSizes : ClearIndexBuffer(size)
    \/ \E slices \in SliceLists : WriteVertexBuffer(slices)
    \/ \E slices \in SliceLists : WriteIndexBuffer(slices)

SpecSliced == InitSliced /\ [][NextSliced]_vars

\* channels are added to an animation and the animation is sampled
NextAnimated ==
    \/ \E kind \in ChannelKinds, joint_id \in Joints,
          interpolation \in Interpolations, timestamps \in TimestampLists :
            AddChannel(kind, joint_id, interpolation, timestamps)
    \/ \E keyframe \in SampleTimes : Sample(keyframe)

SpecAnimated == InitAnimated /\ [][NextAnimated]_vars

\* render pipelines are made for vertex buffer layouts
NextFormats ==
    \/ \E layout \in Layouts : CreateVertexAttributes(layout)

SpecFormats == InitRegistry /\ [][NextFormats]_vars

(***************************************************************************)
(* Properties                                                              *)
(***************************************************************************)
\* the position of command buffer c in the sequence s, 0 when it is not there
PosIn(s, c) == IF \E k \in 1 .. Len(s) : s[k] = c
               THEN CHOOSE k \in 1 .. Len(s) : s[k] = c
               ELSE 0

RangeOf(s) == {s[k] : k \in 1 .. Len(s)}

\* SubmitCommands has made its queue.submit in this cycle
Submitted == submitPc # "idle"

\* C1: the command buffers handed to queue.submit are in non-decreasing
\* priority order, buffers of equal priority keep the order in which they were
\* collected, and the submitted sequence is a permutation of the collected one.
C1_SubmitSortedStablePermutation ==
    Submitted =>
        /\ \A i, j \in 1 .. Len(submitted) :
               i < j => submitted[i].priority <= submitted[j].priority
        /\ \A i, j \in 1 .. Len(collected) :
               (i < j /\ collected[i].priority = collected[j].priority)
                   => PosIn(submitted, collected[i]) < PosIn(submitted, collected[j])
        /\ Len(submitted) = Len(collected)
        /\ \A i \in 1 .. Len(collected) :
               Cardinality({k \in 1 .. Len(submitted) : submitted[k] = collected[i]}) = 1

\* a pass of priority 30 was collected before one of priority 10, two of the
\* collected buffers tie, and the submission reordered the collected sequence
C1_Witness ==
    /\ Submitted
    /\ \E i, j \in 1 .. Len(collected) :
           i < j /\ collected[i].priority = 30 /\ collected[j].priority = 10
    /\ \E i, j \in 1 .. Len(collected) :
           i < j /\ collected[i].priority = collected[j].priority
    /\ \E i \in 1 .. Len(collected) : submitted[i] # collected[i]

\* C2: the frame is presented only after SubmitCommands has returned, that is
\* after the device has processed the frame's one queue submission; never
\* before the submission or while SubmitCommands still polls.
C2_PresentAfterSubmitReturned ==
    presented => /\ submitPc = "returned"
                 /\ deviceDone
                 /\ submitCalls = 1

C2_Witness ==
    /\ presented
    /\ frame = "none"
    /\ submitPc = "returned"
    /\ Len(submitted) = 2 + NumOtherPasses

\* C3: SubmitCommands submits only after every command-producing pass of the
\* frame has finished its encoder, every command buffer finished in the frame
\* is in the frame's submission, and there is one queue.submit call per frame.
C3_SubmitAfterAllPassesOnce ==
    /\ submitCalls <= 1
    /\ Submitted =>
           /\ {"ClearFrame", "Render"} \subseteq ran
           /\ passesRan = OtherPasses
           /\ submitCalls = 1
           /\ pool = <<>>
           /\ {<<c.pass, c.id>> : c \in RangeOf(submitted)}
                  = {<<"ClearFrame", 0>>, <<"Render", 0>>}
                        \cup {<<"OtherPass", i>> : i \in OtherPasses}
           /\ Len(submitted) = 2 + NumOtherPasses

C3_Witness ==
    /\ Submitted
    /\ Len(submitted) = 2 + NumOtherPasses
    /\ collected[Len(collected)].pass = "ClearFrame"

\* C4: whichever of ClearFrame and Render finishes first, the clear pass's
\* command buffer (priority 1000) is submitted before the geometry pass's
\* command buffer (priority 2000).
C4_ClearBeforeGeometry ==
    \A i, j \in 1 .. Len(submitted) :
        (submitted[i].pass = "ClearFrame" /\ submitted[j].pass = "Render") => i < j

\* Render finished before ClearFrame, and both are in the submission
C4_Witness ==
    /\ Submitted
    /\ \E i, j \in 1 .. Len(collected) :
           i < j /\ collected[i].pass = "Render" /\ collected[j].pass = "ClearFrame"
    /\ \E i, j \in 1 .. Len(submitted) :
           i < j /\ submitted[i].pass = "ClearFrame" /\ submitted[j].pass = "Render"

(***************************************************************************)
(* Properties of the batcher                                               *)
(***************************************************************************)
\* Render has run in this cycle
Rendered == "Render" \in ran

\* an entity of the query that Render's loop does not skip: both assets are
\* loaded and the mesh is resident after the run
NotSkipped(e) ==
    /\ entities[e].mesh \in DOMAIN meshAssets
    /\ entities[e].material \in materialAssets
    /\ entities[e].mesh \in DOMAIN meshes

DrawnEntities == {e \in DOMAIN entities : NotSkipped(e)}
DrawnMeshes == {entities[e].mesh : e \in DrawnEntities}
DrawnWith(mesh_id) == {e \in DrawnEntities : entities[e].mesh = mesh_id}

RECURSIVE SumInstanceCount(_)
SumInstanceCount(cmds) ==
    IF cmds = <<>> THEN 0
    ELSE Head(cmds).instance_count + SumInstanceCount(Tail(cmds))

\* C5: in every frame Render emits one IndirectCommand per distinct mesh with
\* a drawn entity in the frame, does not fail because of a mesh that was cached
\* in an earlier frame and has no drawn entity in this one, and the commands'
\* instance_counts sum to the number of entities drawn.
C5_OneCommandPerDrawnMesh ==
    Rendered =>
        /\ panic # "unwrap"
        /\ panic = "none" =>
               /\ Len(indirect_buffer_data) = Cardinality(DrawnMeshes)
               /\ SumInstanceCount(indirect_buffer_data) = Cardinality(DrawnEntities)

\* C6: the instance_count of a mesh's IndirectCommand is the number of entities
\* of the frame's query that reference the mesh and were not skipped, and every
\* mesh with such an entity has its command.
C6_InstanceCountPerMesh ==
    (Rendered /\ panic = "none") =>
        /\ Len(indirect_buffer_data) = Len(meshes_layout)
        /\ \A k \in 1 .. Len(indirect_buffer_data) :
               indirect_buffer_data[k].instance_count
                   = Cardinality(DrawnWith(meshes_layout[k]))
        /\ \A m \in DrawnMeshes : \E k \in 1 .. Len(meshes_layout) : meshes_layout[k] = m

\* two entities share a loaded mesh and are drawn with one command; a third
\* entity is skipped because its mesh is not loaded
C6_Witness ==
    /\ Rendered /\ panic = "none"
    /\ Len(indirect_buffer_data) = 1
    /\ indirect_buffer_data[1].instance_count = 2
    /\ Cardinality(DOMAIN entities) = 3
    /\ Cardinality(DrawnEntities) = 2
    /\ \E e \in DOMAIN entities : entities[e].mesh \notin DOMAIN meshAssets

\* C7: the first IndirectCommand has base_instance 0, each later one starts
\* where the previous one ends, and the last one ends at the number of instance
\* records written in the frame.
C7_BaseInstancePartition ==
    (Rendered /\ panic = "none") =>
        LET n == Len(indirect_buffer_data)
            End(k) == indirect_buffer_data[k].base_instance
                        + indirect_buffer_data[k].instance_count
        IN  /\ n > 0 => indirect_buffer_data[1].base_instance = 0
            /\ \A k \in 2 .. n : indirect_buffer_data[k].base_instance = End(k - 1)
            /\ n > 0 => End(n) = Len(instances_buffer_data)
            /\ n = 0 => Len(instances_buffer_data) = 0
            /\ \A k \in 1 .. n : indirect_buffer_data[k].instance_count > 0

\* two commands, the first of two instances, the second starting at 2
C7_Witness ==
    /\ Rendered /\ panic = "none"
    /\ Len(indirect_buffer_data) = 2
    /\ indirect_buffer_data[1].instance_count = 2
    /\ indirect_buffer_data[2].base_instance = 2
    /\ Len(instances_buffer_data) = 3

\* writes to the vertex buffer issued for a mesh
WritesOf(mesh_id) == {k \in 1 .. Len(mesh_writes) : mesh_writes[k].mesh = mesh_id}

RECURSIVE SumSizes(_)
SumSizes(writes) ==
    IF writes = <<>> THEN 0 ELSE Head(writes).size + SumSizes(Tail(writes))

\* C8: an encounter of a mesh at the version it was first uploaded with gets
\* the layout of that upload (offset, base_vertex, vertex_count); there is one
\* vertex-buffer write for the mesh at that version, and meshes_size is the
\* end of the uploads made.
C8_SameVersionReusesLayout ==
    /\ \A i \in 1 .. Len(drawn) :
           LET d == drawn[i]
               first == CHOOSE k \in WritesOf(d.mesh) : \A l \in WritesOf(d.mesh) : k <= l
               w == mesh_writes[first]
           IN  /\ WritesOf(d.mesh) # {}
               /\ w.version = d.version =>
                      /\ meshes[d.mesh].offset = w.offset
                      /\ d.base_vertex * VertexSize = w.offset
                      /\ d.vertex_count * VertexSize = w.size
                      /\ Cardinality({k \in WritesOf(d.mesh) :
                                         mesh_writes[k].version = d.version}) = 1
    /\ meshes_size = SumSizes(mesh_writes)
    /\ \A k \in 1 .. Len(mesh_writes) :
           mesh_writes[k].offset = SumSizes(SubSeq(mesh_writes, 1, k - 1))

\* a frame in which two entities share a mesh that an earlier frame uploaded
C8_Witness ==
    /\ Rendered /\ panic = "none"
    /\ \E i, j \in 1 .. Len(drawn) :
           /\ i < j
           /\ drawn[i].mesh = drawn[j].mesh
           /\ drawn[i].cached /\ drawn[j].cached
           /\ drawn[i].version = meshes[drawn[i].mesh].version
           /\ drawn[i].base_vertex > 0
    /\ Len(mesh_writes) = 2

\* C9: when Render encounters a mesh whose version differs from the version in
\* its cached MeshLayout, the mesh is uploaded again and a MeshLayout with the
\* new version is recorded; so the layout of a mesh drawn in a frame has the
\* version the mesh asset has in that frame.
C9_CacheKeyedByVersion ==
    \A i \in 1 .. Len(drawn) : meshes[drawn[i].mesh].version = drawn[i].version

\* C10: every entity (material) keeps the slot it was given when first drawn,
\* distinct entities (materials) have distinct slots, the slots in use are
\* 0, 1, 2, ... without a gap, they are given in first-draw order, and no slot
\* is removed or reassigned.
SlotsDense(bases) ==
    /\ \A a, b \in DOMAIN bases : a # b => bases[a] # bases[b]
    /\ {bases[a] : a \in DOMAIN bases} = 0 .. (Cardinality(DOMAIN bases) - 1)

SlotsKept(old, new) ==
    \A a \in DOMAIN old : a \in DOMAIN new /\ new[a] = old[a]

\* of two keys first drawn in this frame, the one drawn first has the lower slot
FirstDrawOrder(old, new, frameDrawn, Key(_)) ==
    \A i, j \in 1 .. Len(frameDrawn) :
        (/\ i < j
         /\ Key(frameDrawn[i]) \notin DOMAIN old
         /\ Key(frameDrawn[j]) \notin DOMAIN old
         /\ Key(frameDrawn[i]) # Key(frameDrawn[j])
         /\ \A k \in 1 .. (j - 1) : Key(frameDrawn[k]) # Key(frameDrawn[j]))
            => new[Key(frameDrawn[i])] < new[Key(frameDrawn[j])]

EntityOf(d) == d.entity
MaterialOf(d) == d.material

C10_SlotsStableDense ==
    [][/\ SlotsDense(transform_bases') /\ SlotsDense(material_bases')
       /\ SlotsKept(transform_bases, transform_bases')
       /\ SlotsKept(material_bases, material_bases')
       /\ FirstDrawOrder(transform_bases, transform_bases', drawn', EntityOf)
       /\ FirstDrawOrder(material_bases, material_bases', drawn', MaterialOf)
       /\ \A i \in 1 .. Len(drawn') :
              /\ drawn'[i].base_transform = transform_bases'[drawn'[i].entity]
              /\ drawn'[i].base_material = material_bases'[drawn'[i].material]]_vars

\* three entities hold the slots 0, 1, 2 and two materials the slots 0, 1; one
\* of the entities has left the world and a later frame was rendered
C10_Witness ==
    /\ Rendered /\ panic = "none"
    /\ Cardinality(DOMAIN transform_bases) = 3
    /\ Cardinality(DOMAIN material_bases) = 2
    /\ \E e \in DOMAIN transform_bases : e \notin DOMAIN entities
    /\ \E i \in 1 .. Len(drawn) : drawn[i].base_transform = 2

(***************************************************************************)
(* Transform buffer                                                        *)
(***************************************************************************)
\* the rows read back from a buffer, or None where nothing was written
ReadBuffer(buffer, offset, rows) ==
    [r \in 1 .. rows |->
        IF offset + (r - 1) * RowSize \in DOMAIN buffer
        THEN buffer[offset + (r - 1) * RowSize]
        ELSE None]

\* C11: after a frame, the matrix-sized region of the transform buffer at
\* slot(entity) x matrix_size holds, for every entity drawn in the frame, the
\* entity's transform matrix of this frame, untouched by the writes made for
\* the other entities.
C11_TransformRoundTrip ==
    (Rendered /\ panic = "none") =>
        \A e \in DrawnEntities :
            /\ e \in DOMAIN transform_bases
            /\ ReadBuffer(transform_buffer, transform_bases[e] * MatrixSize,
                          MatrixSize \div RowSize)
               = MatrixBytes(transforms[e])

\* two entities drawn with different matrices, next to the slot of an entity
\* that was drawn in an earlier frame and is gone
C11_Witness ==
    /\ Rendered /\ panic = "none"
    /\ \E e1, e2 \in DrawnEntities :
        /\ transforms[e1] = "I" /\ transforms[e2] = "A"
        /\ transform_bases[e1] > transform_bases[e2]
    /\ \E gone \in DOMAIN transform_bases : gone \notin DOMAIN entities

(***************************************************************************)
(* Window of frame durations                                               *)
(***************************************************************************)
\* C12: the window of frame durations never holds more samples than
\* FPS_MEASURE_INTERVAL x ceil(fps_request).
C12_WindowWithinConfiguredCapacity ==
    Len(frames_duration) <= FPS_MEASURE_INTERVAL * env.fps_request.ceil

\* a step of CreateFrame
CreateFrameRuns == "CreateFrame" \notin ran /\ "CreateFrame" \in ran'

\* C13: a frame request on a full window removes the oldest sample and only
\* that one, a frame request on a window that is not full removes nothing, and
\* the delta of the frame goes in front of the samples kept.
C13_FifoEviction ==
    [][CreateFrameRuns =>
        /\ frames_duration' # <<>>
        /\ Head(frames_duration') = frame_delta'
        /\ Tail(frames_duration') =
                IF Len(frames_duration) = frames_capacity
                THEN SubSeq(frames_duration, 1, Len(frames_duration) - 1)
                ELSE frames_duration]_vars

\* the window is full and the delta of the first frame has left it
C13_Witness ==
    /\ Len(frames_duration) = frames_capacity
    /\ \A k \in 1 .. Len(frames_duration) :
            frames_duration[k] # env.fps_request.period
    /\ \E j, k \in 1 .. Len(frames_duration) : frames_duration[j] # frames_duration[k]

(***************************************************************************)
(* Surface: resize requests and acquisition                                *)
(***************************************************************************)
\* the requests pending at this moment, oldest first
Pending == IF resize_request = None THEN <<>> ELSE requested

\* the surface calls of a CreateFrame run from the first acquisition on
FromAcquire(calls) ==
    IF calls # <<>> /\ Head(calls).call = "configure" THEN Tail(calls) ELSE calls

Degenerate(size) == size[1] = 0 \/ size[2] = 0

\* C14: a pending request with width = 0 or height = 0 changes nothing when the
\* next frame is created: the width and height of the surface configuration
\* stay, and the surface is not configured ahead of the acquisition.
C14_DegenerateResizeIsNoOp ==
    [][(CreateFrameRuns /\ resize_request # None /\ Degenerate(resize_request)) =>
        /\ surface_conf' = surface_conf
        /\ Head(surface_calls').call = "get_current_texture"]_vars

\* a frame was created over a degenerate request, after a frame that had
\* applied a request
C14_Witness ==
    /\ "CreateFrame" \in ran /\ frame = "ready"
    /\ taken # None /\ Degenerate(taken) /\ taken[1] + taken[2] > 0
    /\ surface_conf # env.surface_size
    /\ Head(surface_calls).call = "get_current_texture"

\* C15: of the requests issued before a frame is created, the last one alone
\* reaches the surface configuration; the earlier ones are dropped, and a
\* frame with no request pending leaves the configuration as it is.
C15_ResizeCoalesced ==
    [][CreateFrameRuns =>
        /\ surface_conf' =
                IF Pending # <<>> /\ ~Degenerate(Pending[Len(Pending)])
                THEN Pending[Len(Pending)]
                ELSE surface_conf
        /\ Pending' = <<>>]_vars

\* a frame was created over two different valid requests and took the second
C15_Witness ==
    /\ "CreateFrame" \in ran /\ frame = "ready"
    /\ resize_request = None /\ taken # None
    /\ Len(requested) = 2
    /\ ~Degenerate(requested[1]) /\ ~Degenerate(requested[2])
    /\ requested[1] # requested[2]
    /\ requested[1] # env.surface_size
    /\ surface_conf = requested[2]

\* C16: the width and height of the surface configuration change in
\* CreateFrame only, with the configure call ahead of the acquisition of that
\* frame's image; a resize request, whenever it arrives, records the request
\* and leaves the configuration and the frame in progress alone.
C16_ResizeOnlyAtFrameStart ==
    [][/\ surface_conf' # surface_conf =>
            /\ CreateFrameRuns
            /\ surface_calls'[1] = [call |-> "configure", result |-> surface_conf']
            /\ surface_calls'[2].call = "get_current_texture"
       /\ (resize_request' # None /\ requested' # requested) =>
            /\ resize_request' = requested'[Len(requested')]
            /\ UNCHANGED <<surface_conf, surface_calls, frame, frame_delta, ran,
                           pool, submitVars>>]_vars

\* a request for another size is pending between the creation of a frame and
\* its presentation
C16_Witness ==
    /\ "CreateFrame" \in ran /\ frame = "ready" /\ submitPc = "polling"
    /\ resize_request # None /\ ~Degenerate(resize_request)
    /\ resize_request # surface_conf

\* C17: a first acquisition that succeeds is the only one and no configure
\* follows it; a first acquisition that fails is followed by one configure and
\* one more acquisition, which gives the frame if it succeeds and is fatal if
\* it fails.
C17_AcquireRetriesOnce ==
    [][CreateFrameRuns =>
        LET calls == FromAcquire(surface_calls')
        IN  /\ calls # <<>>
            /\ calls[1].call = "get_current_texture"
            /\ calls[1].result = "Ok" =>
                    /\ Len(calls) = 1
                    /\ frame' = "ready" /\ panic' = "none"
            /\ calls[1].result = "Err" =>
                    /\ Len(calls) = 3
                    /\ calls[2] = [call |-> "configure", result |-> surface_conf']
                    /\ calls[3].call = "get_current_texture"
                    /\ calls[3].result = "Ok" =>
                            frame' = "ready" /\ panic' = "none"
                    /\ calls[3].result = "Err" =>
                            frame' = "none" /\ panic' # "none"]_vars

\* a frame was created by the second acquisition, after a resize was applied
C17_Witness ==
    /\ "CreateFrame" \in ran /\ frame = "ready" /\ panic = "none"
    /\ Len(surface_calls) = 4
    /\ surface_calls[2].result = "Err"
    /\ surface_calls[4].result = "Ok"

(***************************************************************************)
(* Registry                                                                *)
(***************************************************************************)
\* a step of the named registry call
Called(ops) == last_call' # last_call /\ last_call'.op \in ops

\* the handle has no entry of the requested type
NotPresent(uuid, type) ==
    \/ \A e \in storage : e.uuid # uuid
    \/ \E e \in storage : e.uuid = uuid /\ e.type # type

\* C18: store succeeds and returns a handle the registry did not hold; it
\* adds its entry and touches no other, a typed get with the handle gives the
\* object stored, and an entry leaves the registry only by a store_as on its
\* own handle.
C18_StoreFreshHandle ==
    [][/\ Called({"store"}) =>
            /\ panic' = "none"
            /\ \A e \in storage : last_call'.id # {e.uuid}
            /\ \E raw_id \in Uuids :
                /\ last_call'.id = {raw_id}
                /\ storage' = storage \cup
                        {[uuid |-> raw_id, type |-> last_call'.type,
                          data |-> last_call'.data]}
                /\ Get(storage', raw_id, last_call'.type) = {last_call'.data}
       /\ \A e \in storage :
            e \notin storage' =>
                last_call'.op = "store_as" /\ last_call'.uuid = e.uuid]_vars

\* a store into a registry that holds objects of both types
C18_Witness ==
    /\ last_call.op = "store"
    /\ Cardinality(storage) = 3
    /\ \E e1, e2 \in storage : e1.type # e2.type
    /\ \E e \in storage :
        /\ last_call.id = {e.uuid}
        /\ e.type = last_call.type /\ e.data = last_call.data

\* C19: get and get_mut give nothing for a handle that has no entry or whose
\* entry is of another type, with no error and no change of the registry, and
\* write_buffer_by_id with such a handle issues no write.
C19_NotPresentIsNone ==
    [][/\ Called({"get", "get_mut"}) =>
            /\ NotPresent(last_call'.uuid, last_call'.type) <=> last_call'.result = {}
            /\ storage' = storage /\ panic' = "none"
       /\ (Called({"write_buffer_by_id"}) /\ NotPresent(last_call'.uuid, "Buffer")) =>
            /\ queue_writes' = queue_writes
            /\ storage' = storage /\ panic' = "none"]_vars

\* after a write that went through, a write with the handle of an object that
\* is no buffer issued nothing
C19_Witness ==
    /\ last_call.op = "write_buffer_by_id" /\ last_call.result = {}
    /\ \E e \in storage : e.uuid = last_call.uuid /\ e.type = "ShaderModule"
    /\ Len(queue_writes) = 1

\* C20: store_as replaces the entry of its handle and touches no other, get
\* with the handle gives the object stored last, and the registry never holds
\* two objects under one handle.
C20_StoreAsReplaces ==
    [][/\ \A e1, e2 \in storage' : e1.uuid = e2.uuid => e1 = e2
       /\ Called({"store_as"}) =>
            /\ storage' = {e \in storage : e.uuid # last_call'.uuid} \cup
                    {[uuid |-> last_call'.uuid, type |-> last_call'.type,
                      data |-> last_call'.data]}
            /\ Get(storage', last_call'.uuid, last_call'.type) = {last_call'.data}
            /\ panic' = "none"]_vars

\* a store_as over an object of another type, next to another entry
C20_Witness ==
    /\ last_call.op = "store_as"
    /\ \E old \in last_call.replaced :
            old.type # last_call.type /\ old.data # last_call.data
    /\ Get(storage, last_call.uuid, last_call.type) = {last_call.data}
    /\ Cardinality(storage) = 2

\* the write [buffer, offset, size] was issued in the frame
Issued(buffer, offset, size) ==
    \E k \in 1 .. Len(frame_writes) :
        frame_writes[k] = [buffer |-> buffer, offset |-> offset, size |-> size]

Unavailable(e) ==
    \/ entities[e].mesh \notin DOMAIN meshAssets
    \/ entities[e].material \notin materialAssets

\* every cached mesh is the mesh of an entity of the query
CachedMeshesQueried ==
    \A k \in 1 .. Len(meshes_layout) :
        \E e \in DOMAIN entities : entities[e].mesh = meshes_layout[k]

\* C22: in a frame whose cached meshes are all used by queried entities, an
\* entity whose mesh or material asset is not loaded is skipped: the frame is
\* not aborted, the entity gets no transform slot, no write and no instance,
\* and the entities whose assets are loaded are drawn.
C22_MissingAssetSkipped ==
    (Rendered /\ CachedMeshesQueried) =>
        /\ panic = "none"
        /\ \A e \in DOMAIN entities :
               Unavailable(e) =>
                   /\ e \notin DOMAIN transform_bases
                   /\ \A k \in 1 .. Len(drawn) : drawn[k].entity # e
        /\ \A e \in DOMAIN entities :
               ~Unavailable(e) => \E k \in 1 .. Len(drawn) : drawn[k].entity = e

\* an entity of the query that reaches the batching path with an indexed mesh
ReachesIndexed(e) ==
    /\ ~Unavailable(e)
    /\ meshAssets[entities[e].mesh].indexed

\* C23: in every frame, an entity that reaches the batching path with an
\* indexed mesh is refused (the run panics) or skipped, and the frame uploads
\* nothing of that mesh to the vertex buffer: no write, no layout, no change
\* of the tail; on the first encounter of the mesh and on every later one.
C23_IndexedMeshRefused ==
    Rendered =>
        \A e \in DOMAIN entities :
            ReachesIndexed(e) =>
                /\ \/ panic = "indexed"
                   \/ \A k \in 1 .. Len(drawn) : drawn[k].entity # e
                /\ \A k \in 1 .. Len(drawn) :
                       drawn[k].mesh = entities[e].mesh => drawn[k].cached

\* the writes of the frame that went to the buffer
WritesTo(buffer) == {k \in 1 .. Len(frame_writes) : frame_writes[k].buffer = buffer}

\* C24: a frame issues one material-uniform write per distinct material drawn,
\* however many entities use the material.
C24_OneWritePerMaterial ==
    (Rendered /\ panic = "none") =>
        Cardinality(WritesTo("materials"))
            = Cardinality({drawn[k].material : k \in 1 .. Len(drawn)})

\* the (transform slot, material slot) pairs of the entities drawn with the
\* mesh, in the order the query produced the entities
RECURSIVE PairsOf(_, _)
PairsOf(draws, mesh_id) ==
    IF draws = <<>> THEN <<>>
    ELSE (IF Head(draws).mesh = mesh_id
          THEN <<[base_transform |-> transform_bases[Head(draws).entity],
                  base_material |-> material_bases[Head(draws).material]]>>
          ELSE <<>>) \o PairsOf(Tail(draws), mesh_id)

\* C25: the instance data written in a frame is grouped by mesh: the records
\* at base_instance .. base_instance + instance_count - 1 of the k-th command
\* are the (transform slot, material slot) pairs of the entities drawn with
\* the k-th cached mesh, in query order, and the data holds nothing else.
C25_InstancesGroupedByMesh ==
    (Rendered /\ panic = "none") =>
        /\ Len(indirect_buffer_data) = Len(meshes_layout)
        /\ \A k \in 1 .. Len(indirect_buffer_data) :
               LET cmd == indirect_buffer_data[k]
               IN  /\ cmd.base_instance + cmd.instance_count
                          <= Len(instances_buffer_data)
                   /\ SubSeq(instances_buffer_data, cmd.base_instance + 1,
                             cmd.base_instance + cmd.instance_count)
                          = PairsOf(drawn, meshes_layout[k])
        /\ Len(instances_buffer_data) = Len(drawn)

\* the query gave an entity of m2 between two entities of m1: the instance
\* data has the two records of m1 first, so it is not in query order
C25_Witness ==
    /\ Rendered /\ panic = "none"
    /\ Len(drawn) = 3
    /\ drawn[1].mesh = "m1" /\ drawn[2].mesh = "m2" /\ drawn[3].mesh = "m1"
    /\ meshes_layout = <<"m1", "m2">>
    /\ instances_buffer_data[2].base_transform = drawn[3].base_transform
    /\ instances_buffer_data[2] # instances_buffer_data[1]
    /\ instances_buffer_data[3].base_transform = drawn[2].base_transform

\* the mesh of the k-th command of a frame
CommandMesh(layout, k) == layout[k]

\* C30: the commands of a frame are in the order in which their meshes were
\* first encountered, that is first uploaded: a run of Render keeps the meshes
\* cached before it in their places and puts the meshes it encounters for the
\* first time behind them in the order of their uploads, and the k-th command
\* of a completed frame is the command of the k-th cached mesh; so two meshes
\* keep the relative order of their commands from frame to frame, whatever
\* order the query returns.
C30_CommandsInEncounterOrder ==
    [][("Render" \notin ran /\ "Render" \in ran') =>
        /\ Len(meshes_layout') >= Len(meshes_layout)
        /\ SubSeq(meshes_layout', 1, Len(meshes_layout)) = meshes_layout
        /\ Len(mesh_writes') = Len(meshes_layout')
        /\ \A k \in 1 .. Len(meshes_layout') :
               meshes_layout'[k] = mesh_writes'[k].mesh
        /\ panic' = "none" =>
               /\ Len(indirect_buffer_data') = Len(meshes_layout')
               /\ \A k \in 1 .. Len(indirect_buffer_data') :
                      /\ indirect_buffer_data'[k].base_vertex
                             = meshes'[CommandMesh(meshes_layout', k)].base_vertex
                      /\ \E d \in 1 .. Len(drawn') :
                             drawn'[d].mesh = CommandMesh(meshes_layout', k)]_vars

\* m1 was first encountered a frame before m2; the query of this frame gave
\* the entity of m2 first, and the command of m1 is still the first
C30_Witness ==
    /\ Rendered /\ panic = "none"
    /\ meshes_layout = <<"m1", "m2">>
    /\ Len(drawn) >= 2 /\ drawn[1].mesh = "m2" /\ drawn[1].cached
    /\ Len(indirect_buffer_data) = 2
    /\ indirect_buffer_data[1].base_vertex = meshes["m1"].base_vertex

PresentFrameRuns == "PresentFrame" \notin ran /\ "PresentFrame" \in ran'

\* C26: at most one frame is in flight.  CreateFrame runs only when no frame
\* is held, a frame comes into being only by a run of CreateFrame, and a frame
\* goes away only by the one run of PresentFrame that takes it, after the
\* frame's submission was made and processed; so the next frame is acquired
\* only after the previous one was submitted and presented.
C26_OneFrameInFlight ==
    [][/\ CreateFrameRuns => frame = "none"
       /\ (frame = "none" /\ frame' = "ready") => CreateFrameRuns
       /\ PresentFrameRuns => (frame = "ready" /\ frame' = "none" /\ presented')
       /\ (frame = "ready" /\ frame' = "none") =>
              /\ PresentFrameRuns
              /\ submitCalls = 1 /\ submitPc = "returned" /\ deviceDone]_vars

\* the frame of a third cycle is held: two frames were produced and presented
\* before it
C26_Witness ==
    /\ frame = "ready"
    /\ "CreateFrame" \in ran /\ "PresentFrame" \notin ran
    /\ Len(frames_duration) = 3
    /\ ~presented

\* C27: SubmitCommands returns if and only if the device has processed the
\* submission: it has returned only with the work processed, it leaves its
\* polling loop in no other way than by returning with the work processed,
\* and with a device that completes every submission a polling SubmitCommands
\* returns and the frame reaches present.
C27_SubmitReturnsIffDeviceDone ==
    /\ [](submitPc = "returned" => deviceDone)
    /\ [][(submitPc = "polling" /\ submitPc' # "polling") =>
              (deviceDone /\ submitPc' = "returned")]_vars
    /\ (submitPc = "polling") ~> (submitPc = "returned")
    /\ (submitPc = "polling") ~> presented

\* SubmitCommands polled, the device completed the work, the task returned and
\* the frame of the second cycle was presented
C27_Witness ==
    /\ submitPc = "returned" /\ deviceDone
    /\ presented
    /\ Len(frames_duration) = 2

\* the adapter meets what init requires of its features and its shader model
MeetsRequirements(a) ==
    /\ a.found
    /\ {"MULTI_DRAW_INDIRECT", "INDIRECT_FIRST_INSTANCE"} \subseteq a.features
    /\ a.shader_model >= 5

\* init has run
InitRan == panic # "none" \/ device # {}

\* C28, as stated: init on an adapter that lacks multi-draw-indirect or
\* first-instance support, or whose shader model is below Sm5, panics and
\* produces no device; on an adapter that meets these requirements it returns
\* a device with both features enabled.
C28_RequirementsMetYieldDevice ==
    InitRan =>
        /\ ~MeetsRequirements(adapter) => (panic # "none" /\ device = {})
        /\ MeetsRequirements(adapter) =>
               /\ panic = "none"
               /\ \E d \in device :
                      {"MULTI_DRAW_INDIRECT", "INDIRECT_FIRST_INSTANCE"}
                          \subseteq d.features

\* C28, amended: init on an adapter that lacks multi-draw-indirect or
\* first-instance support, or whose shader model is below Sm5, panics and
\* produces no device; on an adapter that meets these requirements and serves
\* the device request it returns a device with both features enabled, and on
\* one that refuses the request it panics; a device is returned in no other
\* case.
C28_InitRequiresFeatures ==
    InitRan =>
        /\ ~MeetsRequirements(adapter) => (panic # "none" /\ device = {})
        /\ (MeetsRequirements(adapter) /\ adapter.request_device = "Ok") =>
               /\ panic = "none"
               /\ \E d \in device :
                      {"MULTI_DRAW_INDIRECT", "INDIRECT_FIRST_INSTANCE"}
                          \subseteq d.features
        /\ (MeetsRequirements(adapter) /\ adapter.request_device = "Err") =>
               (panic = "Unable to find a suitable GPU adapter!" /\ device = {})
        /\ device # {} => (panic = "none" /\ MeetsRequirements(adapter))
        /\ (panic = "none") # (device = {})

\* an adapter with both features and shader model 4 was refused
C28_Witness ==
    /\ adapter.found
    /\ {"MULTI_DRAW_INDIRECT", "INDIRECT_FIRST_INSTANCE"} \subseteq adapter.features
    /\ adapter.shader_model = 4
    /\ adapter.request_device = "Ok"
    /\ panic = "Shader model requiered"
    /\ device = {}

\* C29: after Texture::unload() the texture holds no GPU resource: the
\* backend texture, its view and the layer views are released, loaded() is
\* false and count_layers() is 0.
C29_UnloadReleasesAll ==
    texture_op = "unload" =>
        /\ texture.wgpu_texture = {}
        /\ texture.wgpu_texture_view = {}
        /\ texture.layers = {}
        /\ ~Texture_loaded(texture)
        /\ Texture_count_layers(texture) = 0

\* C31: the pass of a completed frame records one multi_draw_indirect call,
\* at offset 0 of the indirect buffer, whose count is the number of
\* IndirectCommands the frame wrote at offset 0; the call reads the bytes of
\* that write and none behind them, where an earlier frame's records may lie.
C31_OneDrawOverWrittenCommands ==
    (Rendered /\ panic = "none") =>
        /\ Len(draw_calls) = 1
        /\ draw_calls[1].buffer = "indirect"
        /\ draw_calls[1].indirect_offset = 0
        /\ draw_calls[1].count = Len(indirect_buffer_data)
        /\ Issued("indirect", draw_calls[1].indirect_offset,
                  draw_calls[1].count * DrawIndirectSize)
        /\ Cardinality(WritesTo("indirect")) = 1

\* a frame over two meshes: one call that draws the two commands written
C31_Witness ==
    /\ Rendered /\ panic = "none"
    /\ Len(indirect_buffer_data) = 2
    /\ draw_calls = <<[buffer |-> "indirect", indirect_offset |-> 0, count |-> 2]>>

\* C32: the first frame request after construction takes 1 / fps_request as
\* its delta and reads no elapsed time; every later one takes the time the
\* clock gives as elapsed since the previous request; the delta goes to the
\* front of the window, and the Frame produced carries that same value.
C32_FirstDeltaConfigured ==
    [][CreateFrameRuns =>
        /\ last_frame'
        /\ ~last_frame =>
               /\ measured' = {}
               /\ Head(frames_duration') = env.fps_request.period
        /\ last_frame =>
               /\ measured' # {}
               /\ measured' \subseteq env.deltas
               /\ measured' = {Head(frames_duration')}
        /\ frame' = "ready" => frame_delta' = Head(frames_duration')]_vars

\* a later frame measured 3 ticks, which is not the configured interval of 2
\* that the first frame took and that is still the oldest sample
C32_Witness ==
    /\ "CreateFrame" \in ran /\ frame = "ready"
    /\ measured = {3}
    /\ frame_delta = 3 /\ Head(frames_duration) = 3
    /\ Len(frames_duration) >= 2
    /\ frames_duration[Len(frames_duration)] = env.fps_request.period

\* C33: Texture::update on a texture with no backend texture, never loaded or
\* unloaded, issues no queue write, creates no texture, does not panic and
\* leaves every field of the texture as it was.
C33_UpdateWithoutBackendIsNoOp ==
    [][(texture_op' = "update" /\ panic = "none" /\ texture.wgpu_texture = {}) =>
        /\ texture_writes' = <<>>
        /\ texture' = texture
        /\ textures_created' = textures_created
        /\ panic' = "none"]_vars

\* update was called on a texture that had been initialised with layers and
\* unloaded: it wrote nothing and the texture is as unload left it
C33_Witness ==
    /\ texture_op = "update"
    /\ textures_created > 0
    /\ texture.wgpu_texture = {} /\ texture.wgpu_texture_view = {}
    /\ texture.layers # {}
    /\ texture_writes = <<>>
    /\ panic = "none"

\* the bytes the cached layouts below the offset take
SizeBelow(offset) ==
    SumSizes([k \in 1 .. Len(meshes_layout) |->
                 [size |-> IF meshes[meshes_layout[k]].offset < offset
                           THEN meshes[meshes_layout[k]].size ELSE 0]])

\* C34: the cached MeshLayouts take pairwise disjoint byte ranges of the
\* vertex buffer that follow each other from offset 0 without a gap,
\* meshes_size is the sum of their sizes, and each layout has
\* base_vertex x vertex_size = offset and vertex_count x vertex_size = size.
C34_LayoutsDisjointContiguous ==
    /\ DOMAIN meshes = RangeOf(meshes_layout)
    /\ \A a, b \in DOMAIN meshes :
           a # b => \/ meshes[a].offset + meshes[a].size <= meshes[b].offset
                    \/ meshes[b].offset + meshes[b].size <= meshes[a].offset
    /\ \A a \in DOMAIN meshes :
           /\ meshes[a].size > 0
           /\ meshes[a].offset = SizeBelow(meshes[a].offset)
           /\ meshes[a].base_vertex * VertexSize = meshes[a].offset
           /\ meshes[a].vertex_count * VertexSize = meshes[a].size
    /\ meshes_size = SizeBelow(meshes_size + 1)

\* m2, of two vertices, was cached first and m1 behind it at byte 64
C34_Witness ==
    /\ meshes_layout = <<"m2", "m1">>
    /\ meshes["m2"].offset = 0 /\ meshes["m2"].size = 2 * VertexSize
    /\ meshes["m1"].offset = 2 * VertexSize /\ meshes["m1"].base_vertex = 2
    /\ meshes_size = 3 * VertexSize

\* C35: a CreateFrame run leaves no resize request pending: it takes the
\* request it sees, applies it if it is valid and drops it if it is
\* degenerate, and a run that sees no request leaves the surface configuration
\* alone, so a request is applied once at most and a valid request replaced
\* by a degenerate one ahead of the frame is not applied by a later frame.
C35_RequestConsumedByFrame ==
    [][CreateFrameRuns =>
        /\ resize_request' = None
        /\ taken' = resize_request
        /\ resize_request = None => surface_conf' = surface_conf
        /\ surface_conf' # surface_conf =>
                resize_request # None /\ surface_conf' = resize_request
        /\ (/\ Len(Pending) >= 2
            /\ Degenerate(Pending[Len(Pending)])) =>
                surface_conf' = surface_conf]_vars

\* a frame was created over a valid request replaced by a degenerate one:
\* nothing is pending and the valid size did not reach the surface
C35_Witness ==
    /\ "CreateFrame" \in ran /\ frame = "ready"
    /\ resize_request = None
    /\ Len(requested) = 2
    /\ ~Degenerate(requested[1]) /\ Degenerate(requested[2])
    /\ taken = requested[2]
    /\ surface_conf # requested[1]

(***************************************************************************)
(* Allocator                                                               *)
(***************************************************************************)
AllocatorRuns == "Allocator" \notin ran /\ "Allocator" \in ran'

\* C36: the first Allocator run creates the device objects and adds one
\* registry entry for each of the nine handles it returns; every later run
\* returns the same handles, makes no device call and leaves every registry
\* entry as it is.
C36_AllocatorIdempotent ==
    [][AllocatorRuns =>
        /\ buffers' # {} /\ returned' = buffers'
        /\ buffers = {} =>
             LET b == CHOOSE h \in buffers' : TRUE
                 ids == {b[f] : f \in DOMAIN b}
             IN  /\ Cardinality(ids) = Len(StoredObjects)
                 /\ storage \subseteq storage'
                 /\ Keys(storage') = Keys(storage) \cup ids
                 /\ ids \cap Keys(storage) = {}
                 /\ \A k \in 1 .. Len(StoredObjects) :
                        Get(storage', b[StoredObjects[k].field],
                            StoredObjects[k].type) = {StoredObjects[k].data}
                 /\ device_calls = <<>> /\ device_calls' = AllocatorCalls
        /\ buffers # {} =>
             /\ buffers' = buffers
             /\ returned' = returned
             /\ storage' = storage
             /\ device_calls' = device_calls]_vars

\* the Allocator has run in a second frame, after another user stored an
\* object behind the Allocator's nine
C36_Witness ==
    /\ "Allocator" \in ran /\ Len(frames_duration) >= 2
    /\ returned = buffers /\ buffers # {}
    /\ Cardinality(storage) = Len(StoredObjects) + 1
    /\ device_calls = AllocatorCalls

(***************************************************************************)
(* SlicedBuffer                                                            *)
(***************************************************************************)
\* the ranges follow each other from offset 0 and end within the size
SlicesInOrder(sb) ==
    \A k \in 1 .. Len(sb.slices) :
        /\ sb.slices[k][1] = IF k = 1 THEN 0 ELSE sb.slices[k - 1][2]
        /\ sb.slices[k][1] <= sb.slices[k][2]
        /\ sb.slices[k][2] <= sb.size
        /\ \A j \in 1 .. k - 1 : sb.slices[j][2] <= sb.slices[k][1]

\* the buffer the last call was made on
SlicedBufferOf(name) == IF name = "vertex" THEN vertex_buffer ELSE index_buffer

\* C37: after any calls of clear_vertex_buffer, clear_index_buffer and
\* SlicedBuffer::write the recorded ranges do not overlap, follow each other
\* from offset 0 in write order, are as long as the byte slices written, and
\* end within the size of the buffer, which after clear_*(n) is n at least.
C37_SlicesDisjointContiguous ==
    /\ SlicesInOrder(vertex_buffer)
    /\ SlicesInOrder(index_buffer)
    /\ (ui_call.op = "clear") => SlicedBufferOf(ui_call.buffer).size >= ui_call.size
    /\ (ui_call.op = "write" /\ panic = "none") =>
            LET recorded == SlicedBufferOf(ui_call.buffer).slices
                n == Len(ui_call.slices)
            IN  /\ Len(recorded) >= n
                /\ \A k \in 1 .. n :
                        LET range == recorded[Len(recorded) - n + k]
                        IN  range[2] - range[1] = ui_call.slices[k]

(***************************************************************************)
(* Animation                                                               *)
(***************************************************************************)
\* the channels of the animation, of every kind
AllChannels ==
    RangeOf(animation.translation) \cup RangeOf(animation.rotation)
        \cup RangeOf(animation.scale)

\* the channel has two consecutive keyframes around the time
Brackets(channel, keyframe) ==
    \E i \in 1 .. Len(channel.keyframes) - 1 :
        /\ channel.keyframes[i].timestamp <= keyframe
        /\ keyframe < channel.keyframes[i + 1].timestamp

\* C38: Animation::sample returns for every time and every set of channels,
\* channels of zero or one keyframe included; a joint is in the result iff
\* one of its channels has two consecutive keyframes around the time, and a
\* Step translation channel gives the translation of the first of the two.
C38_SampleNeverAborts ==
    sample_call.op = "sample" =>
        /\ panic = "none"
        /\ \A joint \in Joints :
                joint \in DOMAIN sample_call.result <=>
                    \E channel \in AllChannels :
                        /\ channel.joint_id = joint
                        /\ Brackets(channel, sample_call.keyframe)
        /\ \A joint \in DOMAIN sample_call.result :
                (/\ Len(animation.translation) = 1
                 /\ animation.translation[1].joint_id = joint
                 /\ animation.translation[1].interpolation = "Step"
                 /\ Brackets(animation.translation[1], sample_call.keyframe)) =>
                    \E i \in 1 .. Len(animation.translation[1].keyframes) - 1 :
                        sample_call.result[joint].translate =
                            {animation.translation[1].keyframes[i].transformation}

(***************************************************************************)
(* Vertex formats                                                          *)
(***************************************************************************)
\* C39: every attribute of a pipeline has the backend format of the same
\* component type and component count as the attribute format of the layout;
\* no unsigned integer format becomes a floating-point format.
C39_FormatKept ==
    \A k \in 1 .. Len(vertex_attributes.layout) :
        vertex_attributes.attributes[k].format = vertex_attributes.layout[k]

====
